---- MODULE Spec2Model ----
(***************************************************************************)
(* FilterStore: the central reactive store of the filtering layer          *)
(* (src/unnamed/part_000, lines 1-469), with the calls its widgets make.   *)
(*                                                                         *)
(* Representation.                                                         *)
(*  - A JavaScript string is a sequence of one-character strings.  The     *)
(*    precomposed letters e-acute / E-acute are the tokens "e^" / "E^",    *)
(*    the combining acute accent (U+0301) is the token "^".                *)
(*  - undefined is the one-element sequence Undefined.                     *)
(*  - A number is an integer count of tenths (12.5 is 125); NaN is a       *)
(*    record with nan = TRUE.                                              *)
(*  - A filter key is the pair (classified prefix, rest of the key).       *)
(*  - An item object is named by the number of its raw record; setItems    *)
(*    receives either raw records (processed into fresh objects) or        *)
(*    objects that are already processed.                                  *)
(***************************************************************************)
EXTENDS Integers, Sequences, FiniteSets, TLC

\* ------------------------------------------------------------------ bounds

\* Deepest nesting of notification rounds (a mutator called from a callback).
MaxDepth == 2
\* Deepest nesting of batch(fn) calls.
MaxBatchDepth == 2
\* Most calls observers make from inside callbacks in one run (reentrant runs).
MaxNested == 2
\* Most mutator calls in one run.
MaxCalls == 2
\* Most calls, mutators and item scans together, in one run of the widgets.
MaxScanCalls == 3

\* ----------------------------------------------------------------- strings

Undefined == <<"<undefined>">>

Digits == {"0", "1", "2", "3", "4", "5", "6", "7", "8", "9"}

DigitVal(c) ==
    CASE c = "0" -> 0 [] c = "1" -> 1 [] c = "2" -> 2 [] c = "3" -> 3
      [] c = "4" -> 4 [] c = "5" -> 5 [] c = "6" -> 6 [] c = "7" -> 7
      [] c = "8" -> 8 [] c = "9" -> 9

DigitChar(d) ==
    CASE d = 0 -> "0" [] d = 1 -> "1" [] d = 2 -> "2" [] d = 3 -> "3"
      [] d = 4 -> "4" [] d = 5 -> "5" [] d = 6 -> "6" [] d = 7 -> "7"
      [] d = 8 -> "8" [] d = 9 -> "9"

\* String.prototype.toLowerCase, one character.
LowerChar(c) ==
    CASE c = "R" -> "r" [] c = "B" -> "b" [] c = "E" -> "e" [] c = "S" -> "s"
      [] c = "C" -> "c" [] c = "A" -> "a" [] c = "F" -> "f"
      [] c = "E^" -> "e^"
      [] OTHER -> c

ToLowerCase(s) == [i \in 1..Len(s) |-> LowerChar(s[i])]

RECURSIVE Flatten(_)
Flatten(ss) == IF ss = <<>> THEN <<>> ELSE Head(ss) \o Flatten(Tail(ss))

\* String.prototype.normalize("NFD"): canonical decomposition.
NFD(s) == Flatten([i \in 1..Len(s) |->
                     IF s[i] = "e^" THEN <<"e", "^">>
                     ELSE IF s[i] = "E^" THEN <<"E", "^">>
                     ELSE <<s[i]>>])

\* replace(/[\u0300-\u036f]/g, ""): drop the combining marks.
StripCombining(s) == SelectSeq(s, LAMBDA c : c # "^")

normalizeText(text) == StripCombining(NFD(ToLowerCase(text)))

\* String.prototype.includes
Includes(s, t) ==
    \E i \in 0..(Len(s) - Len(t)) : SubSeq(s, i + 1, i + Len(t)) = t

\* String.prototype.split(sep), sep one character.
RECURSIVE SplitAcc(_, _, _)
SplitAcc(s, sep, cur) ==
    IF s = <<>> THEN <<cur>>
    ELSE IF Head(s) = sep THEN <<cur>> \o SplitAcc(Tail(s), sep, <<>>)
    ELSE SplitAcc(Tail(s), sep, Append(cur, Head(s)))

Split(s, sep) == SplitAcc(s, sep, <<>>)

RECURSIVE TrimLeft(_)
TrimLeft(s) == IF s # <<>> /\ Head(s) = " " THEN TrimLeft(Tail(s)) ELSE s

RECURSIVE TrimRight(_)
TrimRight(s) ==
    IF s # <<>> /\ s[Len(s)] = " " THEN TrimRight(SubSeq(s, 1, Len(s) - 1)) ELSE s

Trim(s) == TrimRight(TrimLeft(s))

RECURSIVE JoinWith(_, _)
JoinWith(ss, sep) ==
    IF ss = <<>> THEN <<>>
    ELSE IF Len(ss) = 1 THEN Head(ss)
    ELSE Head(ss) \o <<sep>> \o JoinWith(Tail(ss), sep)

\* String(v)
JSString(v) ==
    IF v = Undefined THEN <<"u", "n", "d", "e", "f", "i", "n", "e", "d">> ELSE v

\* ----------------------------------------------------------------- numbers

NaN == [nan |-> TRUE, v |-> 0]
Num(n) == [nan |-> FALSE, v |-> n]

RECURSIVE DigitsPrefix(_)
DigitsPrefix(s) ==
    IF s # <<>> /\ Head(s) \in Digits THEN <<Head(s)>> \o DigitsPrefix(Tail(s))
    ELSE <<>>

RECURSIVE DigitsValue(_, _)
DigitsValue(ds, acc) ==
    IF ds = <<>> THEN acc ELSE DigitsValue(Tail(ds), 10 * acc + DigitVal(Head(ds)))

\* The parts of a numeric text: its sign, what follows the sign, the digits
\* after a decimal point.
IsNegative(s) == s # <<>> /\ Head(s) = "-"

Unsigned(s) == IF s # <<>> /\ Head(s) \in {"-", "+"} THEN Tail(s) ELSE s

FractionDigits(rest) ==
    IF rest # <<>> /\ Head(rest) = "." THEN DigitsPrefix(Tail(rest)) ELSE <<>>

\* The number, in tenths, of the integer digits ip and fraction digits fp.
FloatValue(neg, ip, fp) ==
    IF ip = <<>> /\ fp = <<>> THEN NaN
    ELSE Num((IF neg THEN -1 ELSE 1)
             * (10 * DigitsValue(ip, 0)
                + (IF fp = <<>> THEN 0 ELSE DigitVal(fp[1]))))

FloatAfterSign(neg, body, ip) ==
    FloatValue(neg, ip, FractionDigits(SubSeq(body, Len(ip) + 1, Len(body))))

FloatOfTrimmed(s) == FloatAfterSign(IsNegative(s), Unsigned(s), DigitsPrefix(Unsigned(s)))

\* parseFloat on text without exponent: [+-]? digits [. digits]; the value is
\* kept to one fractional digit.
ParseFloat(str) == FloatOfTrimmed(TrimLeft(str))

IntValue(neg, ip) ==
    IF ip = <<>> THEN NaN
    ELSE Num((IF neg THEN -1 ELSE 1) * DigitsValue(ip, 0))

IntOfTrimmed(s) == IntValue(IsNegative(s), DigitsPrefix(Unsigned(s)))

\* parseInt(text), radix 10.
ParseInt(str) == IntOfTrimmed(TrimLeft(str))

\* String(n) for an integer n.
RECURSIVE NatString(_)
NatString(n) ==
    IF n < 10 THEN <<DigitChar(n)>> ELSE NatString(n \div 10) \o <<DigitChar(n % 10)>>

IntString(n) == IF n < 0 THEN <<"-">> \o NatString(0 - n) ELSE NatString(n)

\* Number.prototype.toString of a number given in tenths.
NumberString(n) ==
    (IF n < 0 THEN <<"-">> ELSE <<>>)
    \o NatString((IF n < 0 THEN 0 - n ELSE n) \div 10)
    \o (IF n % 10 = 0 THEN <<>>
        ELSE <<".", DigitChar((IF n < 0 THEN 0 - n ELSE n) % 10)>>)

\* replace(/[^0-9.-]/g, "")
CleanNumeric(s) == SelectSeq(s, LAMBDA c : c \in Digits \cup {".", "-"})

\* replace(/[^0-9.,-]/g, "")
CleanNumericKeepComma(s) == SelectSeq(s, LAMBDA c : c \in Digits \cup {".", ",", "-"})

\* replace(",", "."): the first comma only.
RECURSIVE ReplaceFirstComma(_)
ReplaceFirstComma(s) ==
    IF s = <<>> THEN <<>>
    ELSE IF Head(s) = "," THEN <<".">> \o Tail(s)
    ELSE <<Head(s)>> \o ReplaceFirstComma(Tail(s))

\* -------------------------------------------------------------- item data

\* The raw records a scan of the host page produces (part_002, lines 42-67):
\* _index and one text per named layer; a record without a layer has no
\* such property.  The last record is one a caller other than the scan
\* hands to setItems: it has no _index.
RawItems == <<
    [_index |-> 0, color |-> <<"R", "e", "d">>, price |-> <<"1", "0">>],
    [_index |-> 1, color |-> <<"b", "l", "u", "e">>,
     price |-> <<"1", "2", ",", "5">>],
    [_index |-> 2, color |-> <<"r", "e", "d", ",", "b", "l", "u", "e">>,
     price |-> Undefined],
    [_index |-> 3, color |-> <<"C", "a", "f", "e^">>, price |-> Undefined],
    [color |-> <<"r", "e", "d">>, price |-> Undefined] >>

ItemIds == 1..Len(RawItems)

\* Object.entries(item) without the keys that start with "_".
FieldNames == <<"color", "price">>

NullField == "<null>"

GetField(item, name) ==
    IF name \in DOMAIN item THEN item[name] ELSE Undefined

IsString(v) == v # Undefined

\* setItems, the body of items.map for an unprocessed item.
ProcessItem(item) ==
    LET texts == SelectSeq([i \in 1..Len(FieldNames) |-> item[FieldNames[i]]],
                           IsString)
        added ==
            [color |-> item.color,
             price |-> item.price,
             _processed |-> TRUE,
             _searchIndex |->
                 JoinWith([i \in 1..Len(texts) |-> normalizeText(texts[i])], " "),
             _multiIndex |->
                 [k \in {FieldNames[i] : i \in 1..Len(FieldNames)} |->
                     IF IsString(item[k])
                     THEN SelectSeq(
                            LET parts == Split(ToLowerCase(item[k]), ",")
                            IN  [i \in 1..Len(parts) |-> Trim(parts[i])],
                            LAMBDA t : t # <<>>)
                     ELSE Undefined]]
    IN  IF "_index" \in DOMAIN item
        THEN [_index |-> item._index] @@ added
        ELSE added

\* The processed objects, one per raw record.
ProcessedItems == [i \in ItemIds |-> ProcessItem(RawItems[i])]

Item(i) == ProcessedItems[i]

\* ------------------------------------------------------- predicate engine

MultiPrefix == "filter_multi_"
SliderPrefix == "filter_slider_"

NoValue == [t |-> "none", opts |-> <<>>, lo |-> 0, hi |-> 0]
ListValue(opts) == [t |-> "list", opts |-> opts, lo |-> 0, hi |-> 0]
RangeValue(lo, hi) == [t |-> "pair", opts |-> <<>>, lo |-> lo, hi |-> hi]

\* key.replace(/^filter_(multi|slider)_/, "")
LayerName(key) ==
    IF key.prefix \in {MultiPrefix, SliderPrefix} THEN key.name
    ELSE key.prefix \o key.name

\* A match that wants every selected option to be present.
checkMultiMatchEvery(filterValues, itemValues) ==
    IF filterValues.t = "none" \/ Len(filterValues.opts) = 0 THEN TRUE
    ELSE IF itemValues = Undefined THEN FALSE
    ELSE \A i \in 1..Len(filterValues.opts) :
            \E j \in 1..Len(itemValues) :
                Includes(itemValues[j], ToLowerCase(filterValues.opts[i]))

checkMultiMatch(filterValues, itemValues) ==
    IF filterValues.t = "none" \/ Len(filterValues.opts) = 0 THEN TRUE
    ELSE IF itemValues = Undefined THEN FALSE
    ELSE \E i \in 1..Len(filterValues.opts) :
            LET optLower == ToLowerCase(filterValues.opts[i])
            IN  \/ \E j \in 1..Len(itemValues) : itemValues[j] = optLower
                \/ \E j \in 1..Len(itemValues) : Includes(itemValues[j], optLower)

\* A range match that leaves the two bounds out.
checkSliderMatchExclusive(filterRange, itemValue) ==
    LET val == ParseFloat(CleanNumeric(JSString(itemValue)))
    IN  IF val.nan THEN FALSE
        ELSE val.v > filterRange.lo /\ val.v < filterRange.hi

checkSliderMatch(filterRange, itemValue) ==
    LET val == ParseFloat(CleanNumeric(JSString(itemValue)))
    IN  IF val.nan THEN FALSE
        ELSE val.v >= filterRange.lo /\ val.v <= filterRange.hi

\* Character ranks of String.prototype.localeCompare (root collation):
\* punctuation before digits before letters.
CharRank(c) ==
    CASE c = " " -> 0 [] c = "-" -> 1 [] c = "," -> 2 [] c = "." -> 3
      [] c \in Digits -> 10 + DigitVal(c)
      [] c = "a" -> 30 [] c = "b" -> 31 [] c = "c" -> 32 [] c = "d" -> 33 [] c = "e" -> 34 [] c = "f" -> 35
      [] c = "h" -> 37 [] c = "i" -> 38 [] c = "l" -> 41 [] c = "n" -> 43
      [] c = "r" -> 47 [] c = "s" -> 48 [] c = "t" -> 49 [] c = "u" -> 50
      [] OTHER -> 60

RECURSIVE LexCompare(_, _)
LexCompare(a, b) ==
    IF a = <<>> /\ b = <<>> THEN 0
    ELSE IF a = <<>> THEN -1
    ELSE IF b = <<>> THEN 1
    ELSE IF Head(a) < Head(b) THEN -1
    ELSE IF Head(a) > Head(b) THEN 1
    ELSE LexCompare(Tail(a), Tail(b))

\* localeCompare: base letters first, then lower case before upper case.
LocaleCompare(a, b) ==
    LET na == normalizeText(a)
        nb == normalizeText(b)
        primary == LexCompare([i \in 1..Len(na) |-> CharRank(na[i])],
                              [i \in 1..Len(nb) |-> CharRank(nb[i])])
    IN  IF primary # 0 THEN primary
        ELSE LexCompare([i \in 1..Len(a) |-> IF LowerChar(a[i]) = a[i] THEN 0 ELSE 1],
                        [i \in 1..Len(b) |-> IF LowerChar(b[i]) = b[i] THEN 0 ELSE 1])

IsIsoYear(s) == Len(s) = 4 /\ \A i \in 1..4 : s[i] \in Digits

\* new Date(text).getTime(), in days, for a year-only ISO text; any other
\* text of the item data is no date.
DateTime(v) ==
    IF IsIsoYear(v)
    THEN LET y == DigitsValue(v, 0)
         IN  Num(365 * (y - 1970) + ((y - 1969) \div 4) - ((y - 1901) \div 100)
                 + ((y - 1601) \div 400))
    ELSE NaN

\* x || 0 for a number x
OrZero(x) == IF x.nan \/ x.v = 0 THEN 0 ELSE x.v

\* A comparison whose direction also turns round the place of the values
\* that are null or undefined.
compareValuesNullsFollowDirection(a, b, type, direction) ==
    IF a = Undefined THEN (IF direction = "asc" THEN 1 ELSE -1)
    ELSE IF b = Undefined THEN (IF direction = "asc" THEN -1 ELSE 1)
    ELSE LET res ==
               IF type = "number"
               THEN OrZero(ParseFloat(CleanNumeric(JSString(a))))
                    - OrZero(ParseFloat(CleanNumeric(JSString(b))))
               ELSE IF type = "date"
               THEN OrZero(DateTime(a)) - OrZero(DateTime(b))
               ELSE LocaleCompare(JSString(a), JSString(b))
         IN  IF direction = "asc" THEN res ELSE 0 - res

compareValues(a, b, type, direction) ==
    IF a = Undefined THEN 1
    ELSE IF b = Undefined THEN -1
    ELSE LET res ==
               IF type = "number"
               THEN OrZero(ParseFloat(CleanNumeric(JSString(a))))
                    - OrZero(ParseFloat(CleanNumeric(JSString(b))))
               ELSE IF type = "date"
               THEN OrZero(DateTime(a)) - OrZero(DateTime(b))
               ELSE LocaleCompare(JSString(a), JSString(b))
         IN  IF direction = "asc" THEN res ELSE 0 - res

\* a._index || 0
IndexOrZero(item) == IF "_index" \in DOMAIN item THEN item._index ELSE 0

\* A comparator without the fallback on _index: no field, no order.
SortCompareFieldOnly(a, b, sortConfig) ==
    IF sortConfig.field # NullField
    THEN compareValues(GetField(Item(a), sortConfig.field),
                       GetField(Item(b), sortConfig.field),
                       sortConfig.type, sortConfig.direction)
    ELSE 0

\* applyFilters, step 3: the comparator handed to result.sort.
SortCompare(a, b, sortConfig) ==
    IF sortConfig.field # NullField
    THEN compareValues(GetField(Item(a), sortConfig.field),
                       GetField(Item(b), sortConfig.field),
                       sortConfig.type, sortConfig.direction)
    ELSE IndexOrZero(Item(a)) - IndexOrZero(Item(b))

\* Array.prototype.sort: stable; an element moves left past the elements
\* the comparator puts after it.
RECURSIVE InsertSorted(_, _, _)
InsertSorted(sorted, x, sortConfig) ==
    IF sorted = <<>> THEN <<x>>
    ELSE IF SortCompare(sorted[Len(sorted)], x, sortConfig) > 0
    THEN Append(InsertSorted(SubSeq(sorted, 1, Len(sorted) - 1), x, sortConfig),
                sorted[Len(sorted)])
    ELSE Append(sorted, x)

RECURSIVE SortAcc(_, _, _)
SortAcc(done, todo, sortConfig) ==
    IF todo = <<>> THEN done
    ELSE SortAcc(InsertSorted(done, Head(todo), sortConfig), Tail(todo), sortConfig)

ArraySort(arr, sortConfig) == SortAcc(<<>>, arr, sortConfig)

FilterKeys == {[prefix |-> MultiPrefix, name |-> "color"],
               [prefix |-> MultiPrefix, name |-> "price"],
               [prefix |-> SliderPrefix, name |-> "price"]}

\* applyFilters, step 2: the predicate of items.filter.
ItemMatches(id, activeFilters, searchQuery) ==
    LET item == Item(id)
        hasSearch == Len(searchQuery) > 0
        normalizedQuery == IF hasSearch THEN normalizeText(searchQuery) ELSE <<>>
        searchTerms == IF hasSearch
                       THEN SelectSeq(Split(normalizedQuery, " "),
                                      LAMBDA t : t # <<>>)
                       ELSE <<>>
    IN  /\ \A key \in FilterKeys :
              activeFilters[key].t # "none" =>
                 IF key.prefix = MultiPrefix
                 THEN checkMultiMatch(activeFilters[key],
                                      item._multiIndex[LayerName(key)])
                 ELSE IF key.prefix = SliderPrefix
                 THEN checkSliderMatch(activeFilters[key],
                                       GetField(item, LayerName(key)))
                 ELSE TRUE
        /\ hasSearch =>
              \A i \in 1..Len(searchTerms) :
                  Includes(item._searchIndex, searchTerms[i])

\* applyFilters: filter, then sort; the value assigned to filteredItems.
ComputeFiltered(items, activeFilters, searchQuery, sortConfig) ==
    ArraySort(SelectSeq(items,
                  LAMBDA id : ItemMatches(id, activeFilters, searchQuery)),
              sortConfig)

\* The range slider's reading of an item's value (truthy values only).
SliderNumber(rawVal) ==
    IF rawVal = Undefined \/ rawVal = <<>> THEN NaN
    ELSE ParseFloat(ReplaceFirstComma(CleanNumericKeepComma(JSString(rawVal))))

\* The range slider's data bounds: the least and the greatest value of the
\* layer among the store's items, 0 and 100 when there is none.
SliderValues(items, layerKey) ==
    {SliderNumber(GetField(Item(items[i]), layerKey)).v : i \in
        {j \in 1..Len(items) :
            ~SliderNumber(GetField(Item(items[j]), layerKey)).nan}}

LeastOf(vals) == CHOOSE v \in vals : \A w \in vals : v <= w

GreatestOf(vals) == CHOOSE v \in vals : \A w \in vals : v >= w

DataBounds(items, layerKey) ==
    IF SliderValues(items, layerKey) = {} THEN RangeValue(0, 1000)
    ELSE RangeValue(LeastOf(SliderValues(items, layerKey)),
                    GreatestOf(SliderValues(items, layerKey)))

\* ------------------------------------------- the widgets' visible slices

MinOf(a, b) == IF a <= b THEN a ELSE b

MaxOf(a, b) == IF a >= b THEN a ELSE b

\* Array.prototype.slice: a relative index, negative ones counted from the
\* end, clamped to the array.
RelativeIndex(i, len) == IF i < 0 THEN MaxOf(len + i, 0) ELSE MinOf(i, len)

\* arr.slice(start, end)
ArraySlice(arr, start, end) ==
    SubSeq(arr, RelativeIndex(start, Len(arr)) + 1, RelativeIndex(end, Len(arr)))

PageStart(pagination) == (pagination.currentPage - 1) * pagination.itemsPerPage

\* A grid that shows one page in every mode.
DisplayGridOnePage(state) ==
    IF ~state.pagination.isEnabled THEN state.filteredItems
    ELSE ArraySlice(state.filteredItems, PageStart(state.pagination),
                    PageStart(state.pagination) + state.pagination.itemsPerPage)

\* DisplayGrid.handleStoreUpdate: the value given to setVisibleItems.
DisplayGridItemsToShow(state) ==
    IF ~state.pagination.isEnabled THEN state.filteredItems
    ELSE IF state.pagination.mode = "pagination"
    THEN ArraySlice(state.filteredItems, PageStart(state.pagination),
                    PageStart(state.pagination) + state.pagination.itemsPerPage)
    ELSE IF state.pagination.mode \in {"loadMore", "autoScroll"}
    THEN ArraySlice(state.filteredItems, 0,
                    state.pagination.currentPage * state.pagination.itemsPerPage)
    ELSE state.filteredItems

\* Broadcaster.updateUI: itemsToShow, the items whose elements stay visible.
BroadcasterItemsToShow(state) ==
    IF ~state.pagination.isEnabled THEN state.filteredItems
    ELSE IF state.pagination.mode = "pagination"
    THEN ArraySlice(state.filteredItems, PageStart(state.pagination),
                    PageStart(state.pagination) + state.pagination.itemsPerPage)
    ELSE IF state.pagination.mode \in {"loadMore", "autoScroll"}
    THEN ArraySlice(state.filteredItems, 0,
                    state.pagination.currentPage * state.pagination.itemsPerPage)
    ELSE state.filteredItems

\* ------------------------------------------------------------- the store

VARIABLES
    state,          \* FilterStore.state
    initialized,    \* FilterStore.initialized
    listeners,      \* FilterStore.listeners, in insertion order
    isBatching,     \* FilterStore.isBatching
    pendingNotify,  \* FilterStore.pendingNotify
    storage,        \* sessionStorage, the four broadcast_* entries
    stack,          \* the listener calls in progress, innermost last
    batchDepth,     \* how many batch(fn) calls are running their fn
    lastOp,         \* the most recent call made from outside a callback
    callRecv,       \* per observer, its invocations since that call began
    lastRecv,       \* per observer, the snapshot it was last handed
    delivered,      \* the last invocation of an observer
    nested,         \* how many calls were made from inside callbacks
    regs,           \* per observer, its disposers not yet called
    calls,          \* how many mutator calls were made
    pre,            \* the state when the most recent outside call began
    twin,           \* the state of a store given the same calls whose
                    \* sessionStorage throws on every operation
    guardWrites,    \* how many times the scan's guard has set totalItems
    visible,        \* per observer, the slice it computed from its snapshot
    ui              \* the local state of the mounted filter widgets

vars == <<state, initialized, listeners, isBatching, pendingNotify, storage,
          stack, batchDepth, lastOp, callRecv, lastRecv, delivered, nested,
          regs, calls, pre, twin, guardWrites, visible, ui>>

Observers == {"o1", "o2"}
None == "none"

DefaultSort == [field |-> NullField, direction |-> "asc", type |-> "string"]

NoFilters == [k \in FilterKeys |-> NoValue]

\* The field initializers of FilterStore.state.
InitialState ==
    [activeFilters |-> NoFilters,
     searchQuery |-> <<>>,
     sortConfig |-> DefaultSort,
     items |-> <<>>,
     filteredItems |-> <<>>,
     pagination |-> [currentPage |-> 1, itemsPerPage |-> 12, totalItems |-> 0,
                     isEnabled |-> TRUE, mode |-> "pagination",
                     persistPage |-> FALSE]]

\* --------------------------------------------------------- session storage

Absent(dflt) == [has |-> FALSE, v |-> dflt]
Present(v) == [has |-> TRUE, v |-> v]

\* JSON.stringify(Object.fromEntries(activeFilters)): the text of an object
\* with one property per key of the map.
StringifyFilters(activeFilters) ==
    [json |-> "object",
     props |-> {<<k, activeFilters[k]>> : k \in {x \in FilterKeys :
                                                  activeFilters[x].t # "none"}}]

\* new Map(Object.entries(JSON.parse(text)))
ParseFilters(text) ==
    [k \in FilterKeys |->
        IF \E p \in text.props : p[1] = k
        THEN (CHOOSE p \in text.props : p[1] = k)[2]
        ELSE NoValue]

\* JSON.stringify(sortConfig); a null field is the JSON null.
StringifySort(sortConfig) ==
    [json |-> "object",
     props |-> {<<"field", IF sortConfig.field = NullField THEN "null"
                           ELSE "str:" \o sortConfig.field>>,
                <<"direction", "str:" \o sortConfig.direction>>,
                <<"type", "str:" \o sortConfig.type>>}]

JsonProp(text, name) == (CHOOSE p \in text.props : p[1] = name)[2]

FromJsonString(j, strings) == CHOOSE x \in strings : "str:" \o x = j

\* JSON.parse(text) of a sort configuration
ParseSort(text) ==
    [field |-> IF JsonProp(text, "field") = "null" THEN NullField
               ELSE FromJsonString(JsonProp(text, "field"),
                                   {FieldNames[i] : i \in 1..Len(FieldNames)}),
     direction |-> FromJsonString(JsonProp(text, "direction"), {"asc", "desc"}),
     type |-> FromJsonString(JsonProp(text, "type"), {"string", "number", "date"})]

NoStorage ==
    [filters |-> Absent(StringifyFilters(NoFilters)),
     search |-> Absent(<<>>),
     sort |-> Absent(StringifySort(DefaultSort)),
     page |-> Absent(<<>>)]

updateStoragePage(sto, page) == [sto EXCEPT !.page = Present(IntString(page))]

\* A persistence that leaves the sort entry as it is.
PersistStateWithoutSort(st, sto) ==
    LET saved == [sto EXCEPT !.filters = Present(StringifyFilters(st.activeFilters)),
                             !.search = Present(st.searchQuery)]
    IN  IF st.pagination.persistPage
        THEN updateStoragePage(saved, st.pagination.currentPage)
        ELSE saved

\* notify, "Persist state before notifying"
PersistState(st, sto) ==
    LET saved == [sto EXCEPT !.filters = Present(StringifyFilters(st.activeFilters)),
                             !.search = Present(st.searchQuery),
                             !.sort = Present(StringifySort(st.sortConfig))]
    IN  IF st.pagination.persistPage
        THEN updateStoragePage(saved, st.pagination.currentPage)
        ELSE saved

\* A removal that forgets the page entry.
RemoveEntriesKeepsPage(sto) == [NoStorage EXCEPT !.page = sto.page]

\* resetFilters, the four removeItem calls
RemoveEntries(sto) == NoStorage

\* lazyInit, the restoration from sessionStorage
RestoreState(st, sto) ==
    LET page == ParseInt(sto.page.v)
        st1 == IF sto.page.has /\ sto.page.v # <<>> /\ ~page.nan /\ page.v > 0
               THEN [st EXCEPT !.pagination.currentPage = page.v] ELSE st
        st2 == IF sto.filters.has
               THEN [st1 EXCEPT !.activeFilters = ParseFilters(sto.filters.v)]
               ELSE st1
        st3 == IF sto.search.has /\ sto.search.v # <<>>
               THEN [st2 EXCEPT !.searchQuery = sto.search.v] ELSE st2
    IN  IF sto.sort.has THEN [st3 EXCEPT !.sortConfig = ParseSort(sto.sort.v)]
        ELSE st3

\* A recomputation that forgets the total.
applyFiltersKeepsTotal(st) ==
    [st EXCEPT !.filteredItems =
        ComputeFiltered(st.items, st.activeFilters, st.searchQuery, st.sortConfig)]

\* applyFilters, as a function of the state
applyFilters(st) ==
    LET result == ComputeFiltered(st.items, st.activeFilters, st.searchQuery,
                                  st.sortConfig)
    IN  [st EXCEPT !.filteredItems = result,
                   !.pagination.totalItems = Len(result)]

\* notify, the snapshot: every container copied but items.
Snapshot(st) == st

\* ------------------------------------------------------------------ inputs

\* Most subscribe calls of one observer whose disposer is not yet called.
MaxRegs == 2

RawInputs == {<<1, 2, 3>>, <<3, 1>>, <<>>}

FilterInputs ==
    {<<[prefix |-> MultiPrefix, name |-> "color"], ListValue(<<<<"r", "e", "d">>>>)>>,
     <<[prefix |-> MultiPrefix, name |-> "color"], ListValue(<<>>)>>,
     <<[prefix |-> MultiPrefix, name |-> "color"],
       ListValue(<<<<"B", "l", "u">>, <<"g", "r", "e", "e", "n">>>>)>>,
     <<[prefix |-> MultiPrefix, name |-> "price"], ListValue(<<<<"1">>>>)>>,
     <<[prefix |-> SliderPrefix, name |-> "price"], RangeValue(100, 125)>>,
     <<[prefix |-> SliderPrefix, name |-> "price"], NoValue>>}

SearchInputs == {<<>>, <<"b", "l", "u", "e">>}

SortInputs == {DefaultSort,
               [field |-> "price", direction |-> "desc", type |-> "number"]}

PageInputs == {1, 2}

\* The partial configurations given to setPagination: a page, a total (the
\* scan's guard, part_002 line 75), the pagination widget's mount
\* configuration (part_004 lines 38-44).
PaginationInputs ==
    {[currentPage |-> 2],
     [totalItems |-> 3],
     [itemsPerPage |-> 1, isEnabled |-> TRUE, mode |-> "loadMore",
      persistPage |-> TRUE, currentPage |-> 1]}

\* What an earlier page load of the session may have left in sessionStorage.
SavedSession ==
    [filters |-> Present(StringifyFilters(
        [NoFilters EXCEPT ![[prefix |-> MultiPrefix, name |-> "color"]] =
                              ListValue(<<<<"r", "e", "d">>>>)])),
     search |-> Present(<<>>),
     sort |-> Present(StringifySort(DefaultSort)),
     page |-> Present(<<"2">>)]

StorageInputs == {NoStorage, SavedSession}

\* ------------------------------- the mutators, as functions of the state

\* The part setFilter, removeFilter, setSearch, setSort and resetFilters
\* share: the page reset.
\* A page reset that ignores preventPageReset.
ResetPageAlways(st, prevent) == [st EXCEPT !.pagination.currentPage = 1]

ResetPage(st, prevent) ==
    IF prevent THEN st ELSE [st EXCEPT !.pagination.currentPage = 1]

ResetPageStorage(sto, prevent) ==
    IF prevent THEN sto ELSE updateStoragePage(sto, 1)

\* A setFilter that stores whatever value it is given.
SetFilterStateStoresEmpty(st, key, value, prevent) ==
    applyFilters(ResetPage([st EXCEPT !.activeFilters[key] = value], prevent))

SetFilterState(st, key, value, prevent) ==
    LET st1 == IF value.t = "none" \/ (value.t = "list" /\ Len(value.opts) = 0)
               THEN [st EXCEPT !.activeFilters[key] = NoValue]
               ELSE [st EXCEPT !.activeFilters[key] = value]
    IN  applyFilters(ResetPage(st1, prevent))

RemoveFilterState(st, key, prevent) ==
    applyFilters(ResetPage([st EXCEPT !.activeFilters[key] = NoValue], prevent))

SetSearchState(st, query, prevent) ==
    applyFilters(ResetPage([st EXCEPT !.searchQuery = query], prevent))

SetSortState(st, sort) ==
    applyFilters(ResetPage([st EXCEPT !.sortConfig = sort], FALSE))

ResetFiltersState(st) ==
    applyFilters(ResetPage([st EXCEPT !.activeFilters = NoFilters,
                                      !.searchQuery = <<>>,
                                      !.sortConfig = DefaultSort], FALSE))

\* { ...this.state.pagination, ...config }
MergePagination(pagination, config) ==
    [f \in DOMAIN pagination |->
        IF f \in DOMAIN config THEN config[f] ELSE pagination[f]]

SetPaginationState(st, config) ==
    [st EXCEPT !.pagination = MergePagination(st.pagination, config)]

\* A setPage that goes through applyFilters like the criteria mutators.
SetPageStateRecomputes(st, page) ==
    applyFilters([st EXCEPT !.pagination.currentPage = page])

SetPageState(st, page) == [st EXCEPT !.pagination.currentPage = page]

\* setItems, the test before the assignment: same length and every
\* processed object identical to the one in state.items.  A raw record is
\* always processed into a new object.
SetItemsNoop(st, processed, arr) ==
    /\ Len(arr) = Len(st.items)
    /\ \A i \in 1..Len(arr) : processed /\ arr[i] = st.items[i]

\* An element of the array given to setItems that is null.
NullItem == 0

\* setItems, items.map: reading item._processed of a null element throws a
\* TypeError, which nothing in setItems catches.
SetItemsThrows(arr) == \E i \in 1..Len(arr) : arr[i] = NullItem

SetItemsState(st, processed, arr) ==
    IF SetItemsThrows(arr) \/ SetItemsNoop(st, processed, arr) THEN st
    ELSE applyFilters([st EXCEPT !.items = arr])

\* A lazyInit that restores on every call.
LazyInitAlways(init, st, sto) == RestoreState(st, sto)

\* lazyInit: nothing once initialized is set, else the restoration.
LazyInit(init, st, sto) == IF init THEN st ELSE RestoreState(st, sto)

\* lazyInit when sessionStorage throws: the first getItem of the try block
\* throws, the catch logs, nothing is assigned.
RestoreStateThrowing(st) == st

\* ------------------------------------------------- the widgets' own state

\* The keystrokes the model follows between two calls of the search widget.
MaxStrokes == 2

NoText == <<>>

\* BroadcastSearch before it is mounted.  timers holds the text each pending
\* debounce timer captured; strokes and coalesced count the input events
\* since the last call and those the last call stood for.
InitialSearch ==
    [mounted |-> FALSE, searchQuery |-> NoText, ref |-> NoText, timers |-> {},
     isFirstRun |-> TRUE, strokes |-> 0, coalesced |-> 0]

\* The keys of the multi-select and of the range slider of the page: their
\* layers are "color" and "price".
MultiFilterKey == [prefix |-> MultiPrefix, name |-> "color"]

SliderFilterKey == [prefix |-> SliderPrefix, name |-> "price"]

\* MultiSelectDropdown before it is rendered.  step is the effect that runs
\* next: the subscription of updateOptions, the sync of the selection, the
\* subscription of the listener of the store's value.
InitialMulti ==
    [mounted |-> FALSE, early |-> FALSE, selectedOptions |-> <<>>,
     isFirstRun |-> TRUE, step |-> "options"]

\* RangeSlider before it is rendered.  dirty and resub say that the
\* dependencies of the sync effect and of the subscribe effect changed.
InitialSlider ==
    [mounted |-> FALSE, early |-> FALSE, data |-> RangeValue(0, 1000),
     applied |-> RangeValue(0, 1000),
     lastScanned |-> [set |-> FALSE, items |-> <<>>],
     isFirstRun |-> TRUE, dirty |-> FALSE, resub |-> "no"]

\* The pending selection of RangeSlider: minVal, maxVal and the texts of the
\* two fields, as useState gives them with no item in the store.
InitialSel ==
    [minVal |-> 0, maxVal |-> 1000, minString |-> <<"0">>,
     maxString |-> <<"1", "0", "0">>]

\* setMinVal and setMaxVal, then the effect that copies them to the fields.
SelSet(sel, lo, hi) ==
    IF lo = sel.minVal /\ hi = sel.maxVal THEN sel
    ELSE [minVal |-> lo, maxVal |-> hi, minString |-> NumberString(lo),
          maxString |-> NumberString(hi)]

\* BroadcastPagination before it is mounted.  timers holds the page each
\* pending 300 ms timer of handleLoadMore captured.
InitialPager ==
    [step |-> "mount", mode |-> "pagination", itemsPerPage |-> 1,
     currentPage |-> 1, totalItems |-> 0, totalPages |-> 1,
     isLoading |-> FALSE, timers |-> {}]

\* kind is the filter widget of the page, session what sessionStorage held
\* when the page loaded.
InitialUi ==
    [search |-> InitialSearch, multi |-> InitialMulti, slider |-> InitialSlider,
     pager |-> InitialPager, sel |-> InitialSel, kind |-> "none",
     session |-> NoStorage]

\* Math.ceil(totalItems / itemsPerPage) || 1
PagesOf(totalItems, itemsPerPage) ==
    IF totalItems = 0 THEN 1
    ELSE (totalItems + itemsPerPage - 1) \div itemsPerPage

\* The listener BroadcastPagination subscribes.
PagerListener(w, snap) ==
    [w EXCEPT !.currentPage = snap.pagination.currentPage,
              !.totalItems = snap.pagination.totalItems,
              !.totalPages = PagesOf(snap.pagination.totalItems, w.itemsPerPage)]

\* The first render of MultiSelectDropdown: useState(() =>
\* store.state.activeFilters.get(filterKey) || []).
MultiRendered(st, init) ==
    [InitialMulti EXCEPT !.mounted = TRUE, !.early = ~init,
                         !.selectedOptions = st.activeFilters[MultiFilterKey].opts]

\* A listener that compares the two arrays by identity: the store's value
\* and the local selection are never the same object.
MultiListenerByIdentity(w, snap) ==
    IF w.step = "done"
    THEN [w EXCEPT !.selectedOptions = snap.activeFilters[MultiFilterKey].opts,
                   !.step = "sync"]
    ELSE w

\* The listener of MultiSelectDropdown's third effect.
MultiListener(w, snap) ==
    IF w.step = "done" /\ snap.activeFilters[MultiFilterKey].opts # w.selectedOptions
    THEN [w EXCEPT !.selectedOptions = snap.activeFilters[MultiFilterKey].opts,
                   !.step = "sync"]
    ELSE w

\* The first render of RangeSlider: initialBounds from store.state.items,
\* the applied range from the store's filter, else the bounds.
SliderRendered(st, init) ==
    [InitialSlider EXCEPT
        !.mounted = TRUE, !.early = ~init,
        !.data = DataBounds(st.items, SliderFilterKey.name),
        !.applied = IF st.activeFilters[SliderFilterKey].t = "pair"
                    THEN st.activeFilters[SliderFilterKey]
                    ELSE DataBounds(st.items, SliderFilterKey.name),
        !.dirty = TRUE]

\* setDataMin/Max and setAppliedMin/Max: the effects whose dependencies
\* changed run again after the render.
SliderSet(w, data, applied) ==
    [w EXCEPT !.data = data, !.applied = applied,
              !.resub = IF data # w.data THEN "cleanup" ELSE @,
              !.dirty = @ \/ data # w.data \/ applied # w.applied]

\* RangeSlider handleStoreUpdate.  The items are compared by content.
SliderListener(w, snap) ==
    IF w.lastScanned.set /\ snap.items = w.lastScanned.items
    THEN IF snap.activeFilters[SliderFilterKey].t = "none"
         THEN SliderSet(w, w.data, w.data) ELSE w
    ELSE IF SliderValues(snap.items, SliderFilterKey.name) = {}
    THEN [w EXCEPT !.lastScanned = [set |-> TRUE, items |-> snap.items]]
    ELSE SliderSet([w EXCEPT !.lastScanned = [set |-> TRUE, items |-> snap.items]],
                   DataBounds(snap.items, SliderFilterKey.name),
                   IF snap.activeFilters[SliderFilterKey].t = "none"
                   THEN DataBounds(snap.items, SliderFilterKey.name)
                   ELSE snap.activeFilters[SliderFilterKey])

\* handleStoreUpdate's setMinVal and setMaxVal; w is the widget before the
\* call.
SelListener(sel, w, snap) ==
    IF w.lastScanned.set /\ snap.items = w.lastScanned.items
    THEN IF snap.activeFilters[SliderFilterKey].t = "none"
         THEN SelSet(sel, w.data.lo, w.data.hi) ELSE sel
    ELSE IF SliderValues(snap.items, SliderFilterKey.name) = {} THEN sel
    ELSE IF snap.activeFilters[SliderFilterKey].t = "none"
    THEN SelSet(sel, DataBounds(snap.items, SliderFilterKey.name).lo,
                DataBounds(snap.items, SliderFilterKey.name).hi)
    ELSE SelSet(sel, snap.activeFilters[SliderFilterKey].lo,
                snap.activeFilters[SliderFilterKey].hi)

\* The first render and the two effects of BroadcastSearch: the local text
\* and searchQueryRef take store.state.searchQuery as it is at the render,
\* the debounce effect starts a timer with that text.
SearchMounted(st) ==
    [InitialSearch EXCEPT !.mounted = TRUE, !.searchQuery = st.searchQuery,
                          !.ref = st.searchQuery, !.timers = {st.searchQuery}]

\* A debounce effect that starts its timer without clearing the last one.
SetSearchQueryKeepsTimer(w, text) ==
    IF text = w.searchQuery THEN w
    ELSE [w EXCEPT !.searchQuery = text, !.timers = @ \cup {text}]

\* setSearchQuery(text): a new text renders again, the cleanup of the
\* debounce effect clears its timer and the effect starts one with the new
\* text; the same text does not render.
SetSearchQuery(w, text) ==
    IF text = w.searchQuery THEN w
    ELSE [w EXCEPT !.searchQuery = text, !.timers = {text}]

\* The listener BroadcastSearch subscribes.
SearchListener(w, snap) ==
    IF snap.searchQuery # w.ref THEN SetSearchQuery(w, snap.searchQuery) ELSE w

\* The timer's callback, after its call of store.setSearch.
SearchTimerDone(w, text) ==
    [w EXCEPT !.timers = @ \ {text}, !.isFirstRun = FALSE,
              !.coalesced = w.strokes, !.strokes = 0]

\* The cleanups of the two effects at unmount.
SearchUnmounted(w) == [w EXCEPT !.mounted = FALSE, !.timers = {}]

\* ----------------------------------------------------------------- control

NoKey == [prefix |-> "", name |-> ""]

NoConfig == [none |-> TRUE]

NoSnapshot == [InitialState EXCEPT !.searchQuery = <<"<none>">>]

NoDelivery == [to |-> None, kind |-> None, snap |-> NoSnapshot,
               registered |-> TRUE, stale |-> FALSE]

\* A call and its arguments (those the call does not have keep a default).
Op(name, obs, prevent, noop) ==
    [name |-> name, obs |-> obs, prevent |-> prevent, noop |-> noop,
     plain |-> FALSE, key |-> NoKey, value |-> NoValue, query |-> <<>>,
     sort |-> DefaultSort, page |-> 0, config |-> NoConfig, arr |-> <<>>,
     processed |-> FALSE, repeated |-> FALSE, first |-> FALSE,
     raised |-> FALSE, resets |-> 0, same |-> FALSE, mutated |-> FALSE]

\* A call of listeners in progress: the snapshot, the listeners still to be
\* called (todo), the one running (cur), what the caller does afterwards;
\* and, for the properties, the listeners registered at the start (invited),
\* those called so far (done) and those that have meanwhile been handed a
\* later snapshot (newerSeen).
\* A round that calls the first listener only.
FrameFirstListener(kind, snap, todo, after) ==
    [kind |-> kind, snap |-> snap,
     todo |-> IF todo = <<>> THEN <<>> ELSE <<Head(todo)>>, cur |-> None,
     after |-> after, invited |-> {todo[i] : i \in 1..Len(todo)},
     done |-> {}, newerSeen |-> {}, arg |-> 0]

Frame(kind, snap, todo, after) ==
    [kind |-> kind, snap |-> snap, todo |-> todo, cur |-> None,
     after |-> after, invited |-> {todo[i] : i \in 1..Len(todo)},
     done |-> {}, newerSeen |-> {}, arg |-> 0]

TopLevel == stack = <<>>

\* Control is inside a listener call that may itself call the store.
InCallback ==
    /\ stack # <<>>
    /\ stack[Len(stack)].cur # None
    /\ Len(stack) < MaxDepth
    /\ nested < MaxNested

\* What a call makes of the state of a store whose sessionStorage throws:
\* the storage writes are swallowed (updateStoragePage, notify and
\* resetFilters catch), the first subscribe restores nothing.
TwinState(tw, op) ==
    CASE op.name \in {"setItems", "scan"} -> SetItemsState(tw, op.processed, op.arr)
      [] op.name = "setFilter" -> SetFilterState(tw, op.key, op.value, op.prevent)
      [] op.name = "removeFilter" -> RemoveFilterState(tw, op.key, op.prevent)
      [] op.name = "setSearch" -> SetSearchState(tw, op.query, op.prevent)
      [] op.name = "setSort" -> SetSortState(tw, op.sort)
      [] \/ op.name = "resetFilters"
         \/ (op.name = "resetSignal" /\ op.resets > 0) -> ResetFiltersState(tw)
      [] op.name = "setPagination" -> SetPaginationState(tw, op.config)
      [] op.name = "setPage" -> SetPageState(tw, op.page)
      [] op.name = "subscribe" -> RestoreStateThrowing(tw)
      [] OTHER -> tw

\* The bookkeeping of a call: who called, and the per-call counters.
\* The mutators that end in applyFilters or notify whatever their arguments.
WritingCalls == {"setFilter", "removeFilter", "setSearch", "setSort",
                 "resetFilters", "setPagination", "setPage"}

\* Whether fn, in the batch that is running, has called a mutator other
\* than a setItems with the collection the store already holds.
BatchMutated(before, op) ==
    IF op.name = "batchBegin" THEN batchDepth > 0 /\ before
    ELSE IF batchDepth = 0 THEN FALSE
    ELSE \/ before
         \/ op.name \in WritingCalls
         \/ (op.name = "setItems" /\ ~op.same)

\* tw is what the call makes of the store whose sessionStorage throws.
Called(op, tw) ==
    /\ lastOp' = IF TopLevel
                 THEN [op EXCEPT !.mutated = BatchMutated(lastOp.mutated, op)]
                 ELSE lastOp
    /\ callRecv' = IF TopLevel THEN [o \in Observers |-> 0] ELSE callRecv
    /\ nested' = IF TopLevel THEN nested ELSE nested + 1
    /\ pre' = IF TopLevel THEN state ELSE pre
    /\ twin' = tw
    /\ UNCHANGED <<delivered, guardWrites, visible>>

\* The bookkeeping of a mutator call.
Mutator(op, tw) ==
    /\ calls < MaxCalls
    /\ calls' = calls + 1
    /\ Called(op, tw)

\* A notify() that does not look at isBatching.
NotifyIgnoresBatch(batching, st, sto, after) ==
    /\ pendingNotify' = pendingNotify
    /\ storage' = PersistState(st, sto)
    /\ stack' = Append(stack, Frame("notify", Snapshot(st), listeners, after))

\* notify(): deferred while batching; otherwise the state is persisted and
\* the listeners are called in turn with one snapshot.  `after` names what
\* the caller still does once notify has returned.
Notify(batching, st, sto, after) ==
    IF batching
    THEN /\ pendingNotify' = TRUE
         /\ storage' = IF after = "reset" THEN RemoveEntries(sto) ELSE sto
         /\ stack' = stack
    ELSE /\ pendingNotify' = pendingNotify
         /\ storage' = PersistState(st, sto)
         /\ stack' = Append(stack, Frame("notify", Snapshot(st), listeners, after))

InitWith(sessions) ==
    /\ state = InitialState
    /\ initialized = FALSE
    /\ listeners = <<>>
    /\ isBatching = FALSE
    /\ pendingNotify = FALSE
    /\ storage \in sessions
    /\ stack = <<>>
    /\ batchDepth = 0
    /\ lastOp = Op("init", None, FALSE, FALSE)
    /\ callRecv = [o \in Observers |-> 0]
    /\ lastRecv = [o \in Observers |-> NoSnapshot]
    /\ delivered = NoDelivery
    /\ nested = 0
    /\ regs = [o \in Observers |-> 0]
    /\ calls = 0
    /\ pre = InitialState
    /\ twin = InitialState
    /\ guardWrites = 0
    /\ visible = [o \in Observers |-> <<>>]
    /\ ui = InitialUi

Init == InitWith(StorageInputs)

\* ----------------------------------------------------------------- actions

\* setItems(items): raw records are processed into new objects; objects
\* that are already processed pass through.  A call that throws leaves the
\* state as it was and notifies nobody.
SetItems(processed, arr) ==
    LET noop == SetItemsThrows(arr) \/ SetItemsNoop(state, processed, arr)
    IN  /\ Mutator([Op("setItems", None, FALSE, noop)
                       EXCEPT !.arr = arr, !.processed = processed,
                              !.raised = SetItemsThrows(arr),
                              !.same = (arr = state.items),
                              !.repeated = /\ lastOp.name = "setItems"
                                           /\ lastOp.arr = arr
                                           /\ lastOp.processed = processed],
                   SetItemsState(twin, processed, arr))
        /\ IF noop
           THEN UNCHANGED <<state, storage, pendingNotify, stack>>
           ELSE LET st == SetItemsState(state, processed, arr)
                IN  /\ state' = st
                    /\ Notify(isBatching, st, storage, None)
        /\ UNCHANGED <<initialized, listeners, isBatching, batchDepth, lastRecv, regs>>

SetFilter(key, value, prevent) ==
    /\ Mutator([Op("setFilter", None, prevent, FALSE)
                   EXCEPT !.key = key, !.value = value],
               SetFilterState(twin, key, value, prevent))
    /\ LET st == SetFilterState(state, key, value, prevent)
       IN  /\ state' = st
           /\ Notify(isBatching, st, ResetPageStorage(storage, prevent), None)
    /\ UNCHANGED <<initialized, listeners, isBatching, batchDepth, lastRecv, regs>>

RemoveFilter(key, prevent) ==
    /\ Mutator([Op("removeFilter", None, prevent, FALSE) EXCEPT !.key = key],
               RemoveFilterState(twin, key, prevent))
    /\ LET st == RemoveFilterState(state, key, prevent)
       IN  /\ state' = st
           /\ Notify(isBatching, st, ResetPageStorage(storage, prevent), None)
    /\ UNCHANGED <<initialized, listeners, isBatching, batchDepth, lastRecv, regs>>

SetSearch(query, prevent) ==
    /\ Mutator([Op("setSearch", None, prevent, FALSE) EXCEPT !.query = query],
               SetSearchState(twin, query, prevent))
    /\ LET st == SetSearchState(state, query, prevent)
       IN  /\ state' = st
           /\ Notify(isBatching, st, ResetPageStorage(storage, prevent), None)
    /\ UNCHANGED <<initialized, listeners, isBatching, batchDepth, lastRecv, regs>>

SetSort(sort) ==
    /\ Mutator([Op("setSort", None, FALSE, FALSE) EXCEPT !.sort = sort],
               SetSortState(twin, sort))
    /\ LET st == SetSortState(state, sort)
       IN  /\ state' = st
           /\ Notify(isBatching, st, updateStoragePage(storage, 1), None)
    /\ UNCHANGED <<initialized, listeners, isBatching, batchDepth, lastRecv, regs>>

\* resetFilters(): the removal of the storage entries follows notify.
ResetFilters ==
    /\ Mutator(Op("resetFilters", None, FALSE, FALSE), ResetFiltersState(twin))
    /\ LET st == ResetFiltersState(state)
       IN  /\ state' = st
           /\ Notify(isBatching, st, updateStoragePage(storage, 1), "reset")
    /\ UNCHANGED <<initialized, listeners, isBatching, batchDepth, lastRecv, regs>>

SetPagination(config) ==
    /\ Mutator([Op("setPagination", None, FALSE, FALSE) EXCEPT !.config = config],
               SetPaginationState(twin, config))
    /\ LET st == SetPaginationState(state, config)
           sto == IF /\ "currentPage" \in DOMAIN config
                     /\ config.currentPage # 0
                     /\ st.pagination.persistPage
                  THEN updateStoragePage(storage, config.currentPage)
                  ELSE storage
       IN  /\ state' = st
           /\ Notify(isBatching, st, sto, None)
    /\ UNCHANGED <<initialized, listeners, isBatching, batchDepth, lastRecv, regs>>

SetPage(page) ==
    /\ Mutator([Op("setPage", None, FALSE, FALSE) EXCEPT !.page = page],
               SetPageState(twin, page))
    /\ LET st == SetPageState(state, page)
           sto == IF st.pagination.persistPage
                  THEN updateStoragePage(storage, page) ELSE storage
       IN  /\ state' = st
           /\ Notify(isBatching, st, sto, None)
    /\ UNCHANGED <<initialized, listeners, isBatching, batchDepth, lastRecv, regs>>

Range(seq) == {seq[i] : i \in 1..Len(seq)}

Without(seq, o) == SelectSeq(seq, LAMBDA x : x # o)

\* Set.prototype.forEach visits the entries in insertion order, also those
\* added while it runs, and skips those deleted before their turn: every
\* round in progress sees an addition and a deletion.
AddToRounds(stk, o) ==
    [i \in 1..Len(stk) |->
        IF stk[i].kind = "notify" THEN [stk[i] EXCEPT !.todo = Append(@, o)]
        ELSE stk[i]]

\* A round that walks a copy of the listeners made when it began.
DeleteFromRoundsCopy(stk, o) == stk

DeleteFromRounds(stk, o) ==
    [i \in 1..Len(stk) |->
        IF stk[i].kind = "notify" THEN [stk[i] EXCEPT !.todo = Without(@, o)]
        ELSE stk[i]]

\* A subscribe that announces the newcomer through notify().
SubscribeNotifiesAll(o) ==
    /\ regs[o] < MaxRegs
    /\ Called(Op("subscribe", o, FALSE, FALSE), RestoreStateThrowing(twin))
    /\ LET st == IF initialized THEN state ELSE RestoreState(state, storage)
           isNew == o \notin Range(listeners)
           ls == IF isNew THEN Append(listeners, o) ELSE listeners
       IN  /\ state' = st
           /\ listeners' = ls
           /\ stack' = Append(IF isNew THEN AddToRounds(stack, o) ELSE stack,
                              Frame("subscribe", st, ls, None))
    /\ initialized' = TRUE
    /\ regs' = [regs EXCEPT ![o] = @ + 1]
    /\ UNCHANGED <<isBatching, pendingNotify, storage, batchDepth, lastRecv,
                   calls>>

\* A subscribe that keeps a list of listeners instead of a set.
SubscribeAsList(o) ==
    /\ regs[o] < MaxRegs
    /\ Called(Op("subscribe", o, FALSE, FALSE), RestoreStateThrowing(twin))
    /\ LET st == IF initialized THEN state ELSE RestoreState(state, storage)
       IN  /\ state' = st
           /\ listeners' = Append(listeners, o)
           /\ stack' = Append(AddToRounds(stack, o),
                              Frame("subscribe", st, <<o>>, None))
    /\ initialized' = TRUE
    /\ regs' = [regs EXCEPT ![o] = @ + 1]
    /\ UNCHANGED <<isBatching, pendingNotify, storage, batchDepth, lastRecv,
                   calls>>

\* subscribe(listener): lazyInit, listeners.add, listener({...this.state}).
Subscribe(o) ==
    /\ regs[o] < MaxRegs
    /\ Called([Op("subscribe", o, FALSE, FALSE) EXCEPT !.first = ~initialized],
              RestoreStateThrowing(twin))
    /\ LET st == LazyInit(initialized, state, storage)
           isNew == o \notin Range(listeners)
       IN  /\ state' = st
           /\ listeners' = IF isNew THEN Append(listeners, o) ELSE listeners
           /\ stack' = Append(IF isNew THEN AddToRounds(stack, o) ELSE stack,
                              Frame("subscribe", st, <<o>>, None))
    /\ initialized' = TRUE
    /\ regs' = [regs EXCEPT ![o] = @ + 1]
    /\ UNCHANGED <<isBatching, pendingNotify, storage, batchDepth, lastRecv,
                   calls>>

\* The disposer subscribe returned: listeners.delete(listener).
Unsubscribe(o) ==
    /\ regs[o] > 0
    /\ Called(Op("unsubscribe", o, FALSE, o \notin Range(listeners)), twin)
    /\ listeners' = Without(listeners, o)
    /\ stack' = DeleteFromRounds(stack, o)
    /\ regs' = [regs EXCEPT ![o] = @ - 1]
    /\ lastRecv' = [lastRecv EXCEPT ![o] = NoSnapshot]
    /\ UNCHANGED <<state, initialized, isBatching, pendingNotify, storage,
                   batchDepth, calls>>

\* batch(fn), up to the call of fn.
BatchBegin ==
    /\ TopLevel
    /\ batchDepth < MaxBatchDepth
    /\ Called(Op("batchBegin", None, FALSE, FALSE), twin)
    /\ isBatching' = TRUE
    /\ batchDepth' = batchDepth + 1
    /\ UNCHANGED <<state, initialized, listeners, pendingNotify, storage, stack,
                   lastRecv, regs, calls>>

\* A batch without try/finally: what follows fn() is skipped when fn throws.
BatchWithoutFinally(threw) ==
    /\ TopLevel
    /\ batchDepth > 0
    /\ Called([Op("batchEnd", None, FALSE, ~pendingNotify \/ threw)
                 EXCEPT !.plain = isBatching /\ batchDepth = 1,
                        !.raised = threw], twin)
    /\ isBatching' = (threw /\ isBatching)
    /\ batchDepth' = batchDepth - 1
    /\ IF pendingNotify /\ ~threw
       THEN /\ pendingNotify' = FALSE
            /\ storage' = PersistState(state, storage)
            /\ stack' = Append(stack, Frame("notify", Snapshot(state), listeners, None))
       ELSE UNCHANGED <<pendingNotify, storage, stack>>
    /\ UNCHANGED <<state, initialized, listeners, lastRecv, regs, calls>>

\* batch(fn), the finally block: it runs when fn has returned and when fn
\* has thrown; nothing in batch catches, so what fn threw goes on to the
\* caller of batch once the block is done.
BatchFinally(threw) ==
    /\ TopLevel
    /\ batchDepth > 0
    /\ Called([Op("batchEnd", None, FALSE, ~pendingNotify)
                 EXCEPT !.plain = isBatching /\ batchDepth = 1,
                        !.raised = threw], twin)
    /\ isBatching' = FALSE
    /\ batchDepth' = batchDepth - 1
    /\ IF pendingNotify
       THEN /\ pendingNotify' = FALSE
            /\ storage' = PersistState(state, storage)
            /\ stack' = Append(stack, Frame("notify", Snapshot(state), listeners, None))
       ELSE UNCHANGED <<pendingNotify, storage, stack>>
    /\ UNCHANGED <<state, initialized, listeners, lastRecv, regs, calls>>

\* batch(fn) when fn returns.
BatchEnd == BatchFinally(FALSE)

\* What the widget behind an observer shows of a snapshot: the first
\* observer is the Broadcaster's updateUI, the second DisplayGrid's
\* handleStoreUpdate.
ItemsToShow(o, snap) ==
    IF o = "o1" THEN BroadcasterItemsToShow(snap) ELSE DisplayGridItemsToShow(snap)

\* The next listener of the innermost round is called with its snapshot.
Deliver ==
    /\ stack # <<>>
    /\ LET n == Len(stack)
           f == stack[n]
       IN  /\ f.todo # <<>>
           /\ LET l == Head(f.todo)
              IN  /\ stack' = [i \in 1..n |->
                                 IF i = n
                                 THEN [f EXCEPT !.todo = Tail(f.todo), !.cur = l,
                                                !.done = @ \cup {l}]
                                 ELSE [stack[i] EXCEPT !.newerSeen = @ \cup {l}]]
                  /\ lastRecv' = [lastRecv EXCEPT ![l] = f.snap]
                  /\ callRecv' = [callRecv EXCEPT ![l] = @ + 1]
                  /\ delivered' = [to |-> l, kind |-> f.kind, snap |-> f.snap,
                                   registered |-> l \in Range(listeners),
                                   stale |-> /\ l \in f.newerSeen
                                             /\ f.snap # lastRecv[l]]
                  /\ visible' = [visible EXCEPT ![l] = ItemsToShow(l, f.snap)]
    /\ UNCHANGED <<twin, guardWrites, pre, state, initialized, listeners, isBatching, pendingNotify,
                   storage, batchDepth, lastOp, nested, regs, calls>>

\* The innermost round is over: its caller goes on (resetFilters removes
\* the storage entries) and returns.
Return ==
    /\ stack # <<>>
    /\ LET n == Len(stack)
           f == stack[n]
       IN  /\ f.todo = <<>>
           /\ f.after # "scan"
           /\ stack' = SubSeq(stack, 1, n - 1)
           /\ storage' = IF f.after = "reset" THEN RemoveEntries(storage)
                         ELSE storage
    /\ UNCHANGED <<twin, guardWrites, visible, pre, state, initialized, listeners, isBatching, pendingNotify,
                   batchDepth, lastOp, callRecv, lastRecv, delivered, nested,
                   regs, calls>>

\* The mutator calls, over all the inputs.
Mutators ==
    \/ \E arr \in RawInputs : SetItems(FALSE, arr)
    \/ (state.items # <<>> /\ SetItems(TRUE, state.items))
    \/ \E in \in FilterInputs, prevent \in BOOLEAN : SetFilter(in[1], in[2], prevent)
    \/ \E key \in FilterKeys, prevent \in BOOLEAN : RemoveFilter(key, prevent)
    \/ \E query \in SearchInputs, prevent \in BOOLEAN : SetSearch(query, prevent)
    \/ \E sort \in SortInputs : SetSort(sort)
    \/ ResetFilters
    \/ \E config \in PaginationInputs : SetPagination(config)
    \/ \E page \in PageInputs : SetPage(page)

\* One observer that only reads its snapshots: every call comes from
\* outside a callback.
Next ==
    \/ (TopLevel /\ Mutators /\ UNCHANGED ui)
    \/ (TopLevel /\ regs["o1"] = 0 /\ Subscribe("o1") /\ UNCHANGED ui)
    \/ (TopLevel /\ Unsubscribe("o1") /\ UNCHANGED ui)
    \/ (batchDepth = 0 /\ BatchBegin /\ UNCHANGED ui)
    \/ (BatchEnd /\ UNCHANGED ui)
    \/ (Deliver /\ UNCHANGED ui)
    \/ (Return /\ UNCHANGED ui)

Spec == Init /\ [][Next]_vars

\* The same calls on a page load whose sessionStorage is empty.
InitEmptyStorage == Init /\ storage = NoStorage

SpecEmptyStorage == InitEmptyStorage /\ [][Next]_vars

\* The mutators of the runs that are about the notification protocol.
BusMutators ==
    \/ SetItems(FALSE, <<1, 2, 3>>)
    \/ SetSearch(<<"b", "l", "u", "e">>, FALSE)
    \/ SetPage(2)
    \/ ResetFilters

\* The first observer may subscribe again while it is registered.
BusCalls ==
    \/ BusMutators
    \/ Subscribe("o1")
    \/ (regs["o2"] = 0 /\ Subscribe("o2"))
    \/ \E o \in Observers : Unsubscribe(o)

\* Two observers that only read their snapshots, nested batches.
NextBus ==
    \/ (TopLevel /\ BusCalls /\ UNCHANGED ui)
    \/ (BatchBegin /\ UNCHANGED ui)
    \/ (BatchEnd /\ UNCHANGED ui)
    \/ (Deliver /\ UNCHANGED ui)
    \/ (Return /\ UNCHANGED ui)

SpecBus == Init /\ [][NextBus]_vars

\* Two observers that only read, and batches whose fn returns or throws.
NextThrow ==
    \/ (TopLevel /\ BusMutators /\ UNCHANGED ui)
    \/ (TopLevel /\ \E o \in Observers : (regs[o] = 0 /\ Subscribe(o))
           /\ UNCHANGED ui)
    \/ (batchDepth = 0 /\ BatchBegin /\ UNCHANGED ui)
    \/ (\E threw \in BOOLEAN : BatchFinally(threw) /\ UNCHANGED ui)
    \/ (Deliver /\ UNCHANGED ui)
    \/ (Return /\ UNCHANGED ui)

SpecThrow == InitEmptyStorage /\ [][NextThrow]_vars

ReentrantCalls ==
    \/ BusMutators
    \/ \E o \in Observers : (regs[o] = 0 /\ Subscribe(o))
    \/ \E o \in Observers : Unsubscribe(o)

\* Observers that call the store from inside their callbacks.
NextReentrant ==
    \/ (TopLevel /\ ReentrantCalls /\ UNCHANGED ui)
    \/ (InCallback /\ ReentrantCalls /\ UNCHANGED ui)
    \/ (batchDepth = 0 /\ BatchBegin /\ UNCHANGED ui)
    \/ (BatchEnd /\ UNCHANGED ui)
    \/ (Deliver /\ UNCHANGED ui)
    \/ (Return /\ UNCHANGED ui)

SpecReentrant == Init /\ [][NextReentrant]_vars

\* An observer writes into the snapshot it is being handed.  The snapshot
\* of subscribe is { ...this.state }: its containers are the store's own.
\* The snapshot of notify has its own containers (but for items) and is one
\* object for all the listeners of the round.
MutatedSnapshot(snap, field) ==
    CASE field = "filteredItems" ->
            [snap EXCEPT !.filteredItems = Append(@, 1)]
      [] field = "activeFilters" ->
            [snap EXCEPT !.activeFilters[[prefix |-> MultiPrefix,
                                          name |-> "color"]] =
                             ListValue(<<<<"b", "l", "u", "e">>>>)]
      [] field = "pagination" ->
            [snap EXCEPT !.pagination.currentPage = 3]
      [] field = "searchQuery" ->
            [snap EXCEPT !.searchQuery = <<"x">>]

SnapshotFields == {"filteredItems", "activeFilters", "pagination", "searchQuery"}

\* The fields of a snapshot whose value is the store's own container.
SharedContainers(kind) ==
    IF kind = "subscribe" THEN {"filteredItems", "activeFilters", "pagination"}
    ELSE {}

MutateSnapshot(field) ==
    /\ stack # <<>>
    /\ LET n == Len(stack)
           f == stack[n]
       IN  /\ f.cur # None
           /\ Len(f.snap.filteredItems) <= Len(RawItems)
           /\ MutatedSnapshot(f.snap, field) # f.snap
           /\ stack' = [stack EXCEPT ![n].snap = MutatedSnapshot(f.snap, field)]
           /\ state' = IF field \in SharedContainers(f.kind)
                       THEN MutatedSnapshot(state, field) ELSE state
           /\ lastOp' = Op("mutateSnapshot", f.cur, FALSE, FALSE)
    /\ nested < MaxNested
    /\ nested' = nested + 1
    /\ UNCHANGED <<twin, guardWrites, visible, pre, initialized, listeners,
                   isBatching, pendingNotify, storage, batchDepth, callRecv, lastRecv, delivered, regs, calls>>

NextMutating ==
    \/ (TopLevel /\ ReentrantCalls /\ UNCHANGED ui)
    \/ (Deliver /\ UNCHANGED ui)
    \/ (Return /\ UNCHANGED ui)
    \/ \E field \in SnapshotFields : MutateSnapshot(field) /\ UNCHANGED ui

SpecMutating == Init /\ [][NextMutating]_vars

\* Every mutator, called outside batch, with two observers that only read
\* their snapshots.
NextNotify ==
    \/ (TopLevel /\ Mutators /\ UNCHANGED ui)
    \/ (TopLevel /\ \E o \in Observers : (regs[o] = 0 /\ Subscribe(o)) /\ UNCHANGED ui)
    \/ (TopLevel /\ \E o \in Observers : Unsubscribe(o) /\ UNCHANGED ui)
    \/ (Deliver /\ UNCHANGED ui)
    \/ (Return /\ UNCHANGED ui)

SpecNotify == InitEmptyStorage /\ [][NextNotify]_vars

\* The mutators outside batch, setPage also with a page no page has; the
\* session may hold the entries of an earlier page load.
NextRoundTrip ==
    \/ (TopLevel /\ Mutators /\ UNCHANGED ui)
    \/ (TopLevel /\ SetPage(0) /\ UNCHANGED ui)
    \/ (TopLevel /\ regs["o1"] = 0 /\ Subscribe("o1") /\ UNCHANGED ui)
    \/ (Deliver /\ UNCHANGED ui)
    \/ (Return /\ UNCHANGED ui)

SpecRoundTrip == Init /\ [][NextRoundTrip]_vars

\* ------------------------------------------------- the predicate engine

\* The collections of the runs about filtering, searching and sorting: the
\* four cards, in the container's order and in another one.
CriteriaItems == {<<1, 2, 3, 4>>, <<3, 4, 1>>}

\* Ranges whose lower or upper bound is the value of a card (10, and 125 as
\* the store reads "12,5"), and one that holds both.
RangeInputs == {RangeValue(100, 125), RangeValue(50, 100), RangeValue(101, 1250),
                RangeValue(0, 2000)}

\* The tab character (U+0009), which a text input keeps when it is pasted.
Tab == "<tab>"

\* Queries: none, two terms in two orders, an upper-case accented term, a
\* term with a space after it, a term no card holds, two terms with a tab
\* between them.
QueryInputs == {<<>>,
                <<"r", "e", "d", Tab, "b", "l", "u", "e">>,
                <<"r", "e", "d", " ", "b", "l", "u", "e">>,
                <<"b", "l", "u", "e", " ", "r", "e", "d">>,
                <<"C", "A", "F", "E^">>,
                <<"r", "e", "d", " ">>,
                <<"r", "e", "d", " ", "s", "h">>}

CriteriaSorts == {[field |-> "price", direction |-> "asc", type |-> "number"],
                  [field |-> "price", direction |-> "desc", type |-> "number"],
                  [field |-> "price", direction |-> "desc", type |-> "string"],
                  DefaultSort}

\* A collection with a null among the records.
MalformedItems == <<1, NullItem, 2>>

CriteriaMutators ==
    \/ \E arr \in CriteriaItems \cup {MalformedItems} : SetItems(FALSE, arr)
    \/ \E range \in RangeInputs :
          SetFilter([prefix |-> SliderPrefix, name |-> "price"], range, FALSE)
    \/ \E query \in QueryInputs : SetSearch(query, FALSE)
    \/ \E sort \in CriteriaSorts : SetSort(sort)

\* One observer that only reads; the criteria and the items in any order.
NextCriteria ==
    \/ (TopLevel /\ CriteriaMutators /\ UNCHANGED ui)
    \/ (TopLevel /\ regs["o1"] = 0 /\ Subscribe("o1") /\ UNCHANGED ui)
    \/ (Deliver /\ UNCHANGED ui)
    \/ (Return /\ UNCHANGED ui)

SpecCriteria == InitEmptyStorage /\ [][NextCriteria]_vars

\* Collections in which the cards do not come by rising _index, and in
\* which the record without _index stands before and after the card whose
\* _index is 0.
OrderItems == {<<5, 1, 2>>, <<1, 5, 2>>, <<3, 5, 2, 1>>, <<2, 1>>}

OrderSorts == {[field |-> "price", direction |-> "asc", type |-> "number"],
               DefaultSort}

OrderMutators ==
    \/ \E arr \in OrderItems : SetItems(FALSE, arr)
    \/ \E opts \in {<<<<"r", "e", "d">>>>, <<>>} :
          SetFilter([prefix |-> MultiPrefix, name |-> "color"],
                    ListValue(opts), FALSE)
    \/ \E query \in {<<>>, <<"r", "e", "d">>} : SetSearch(query, FALSE)
    \/ \E sort \in OrderSorts : SetSort(sort)

\* One observer that only reads; collections in any order, with and
\* without a sort field.
NextOrder ==
    \/ (TopLevel /\ OrderMutators /\ UNCHANGED ui)
    \/ (TopLevel /\ regs["o1"] = 0 /\ Subscribe("o1") /\ UNCHANGED ui)
    \/ (Deliver /\ UNCHANGED ui)
    \/ (Return /\ UNCHANGED ui)

SpecOrder == InitEmptyStorage /\ [][NextOrder]_vars

\* ------------------------------------------------------ the search widget

\* The search widget's listener is the observer o1.
SearchObserver == "o1"

\* What the user types into the input.
TypedInputs == {<<"b">>, <<"b", "l">>, <<"r", "e", "d">>}

SearchMount ==
    /\ ~ui.search.mounted
    /\ Subscribe(SearchObserver)
    /\ ui' = [ui EXCEPT !.search = SearchMounted(state)]

\* handleSearchChange: onChange of the input.
SearchType(text) ==
    /\ ui.search.mounted
    /\ text # ui.search.searchQuery
    /\ ui.search.strokes < MaxStrokes
    /\ ui' = [ui EXCEPT !.search = [SetSearchQuery(@, text)
                                      EXCEPT !.strokes = @ + 1]]
    /\ UNCHANGED <<state, initialized, listeners, isBatching, pendingNotify,
                   storage, stack, batchDepth, lastOp, callRecv, lastRecv,
                   delivered, nested, regs, calls, pre, twin, guardWrites,
                   visible>>

\* A debounce timer fires, 300 ms after it was started.
SearchTimer ==
    \E text \in ui.search.timers :
        /\ SetSearch(text, ui.search.isFirstRun)
        /\ ui' = [ui EXCEPT !.search = SearchTimerDone(@, text)]

\* handleClear: the cross, rendered while the local text is not empty.
SearchClear ==
    /\ ui.search.mounted
    /\ ui.search.searchQuery # NoText
    /\ SetSearch(NoText, FALSE)
    /\ ui' = [ui EXCEPT !.search = SetSearchQuery(@, NoText)]

SearchUnmount ==
    /\ ui.search.mounted
    /\ Unsubscribe(SearchObserver)
    /\ ui' = [ui EXCEPT !.search = SearchUnmounted(@)]

\* A notification reaches the search widget's listener.
SearchDeliver ==
    /\ Deliver
    /\ ui' = [ui EXCEPT !.search =
                 SearchListener(@, stack[Len(stack)].snap)]

\* The store calls of the page's other parts.
SearchPageCalls ==
    \/ SetItems(FALSE, <<1, 2, 3>>)
    \/ SetPage(2)
    \/ ResetFilters

NextSearch ==
    \/ (TopLevel /\ SearchMount)
    \/ (TopLevel /\ \E text \in TypedInputs : SearchType(text))
    \/ (TopLevel /\ SearchTimer)
    \/ (TopLevel /\ SearchClear)
    \/ (TopLevel /\ SearchUnmount)
    \/ (TopLevel /\ SearchPageCalls /\ UNCHANGED ui)
    \/ SearchDeliver
    \/ (Return /\ UNCHANGED ui)

SpecSearch == Init /\ [][NextSearch]_vars

\* ----------------------------------------------- the page after a reload

\* What the session left in sessionStorage: a multi-select filter, a range
\* filter and a search text, the second page.
FullSession ==
    [filters |-> Present(StringifyFilters(
        [NoFilters EXCEPT ![MultiFilterKey] = ListValue(<<<<"r", "e", "d">>>>),
                          ![SliderFilterKey] = RangeValue(100, 125)])),
     search |-> Present(<<"b", "l", "u", "e">>),
     sort |-> Present(StringifySort(DefaultSort)),
     page |-> Present(<<"2">>)]

ReloadSessions == {SavedSession, FullSession}

WidgetKinds == {"search", "multi", "slider"}

\* The widget's listener is the observer o1; o2 is updateOptions, the first
\* listener of the multi-select.
WidgetObserver == "o1"

OptionsObserver == "o2"

InitReload == InitWith(ReloadSessions)

\* The page is loaded with one of the filter widgets.
PageLoads(kind) ==
    /\ ui.kind = "none"
    /\ ui' = [ui EXCEPT !.kind = kind, !.session = storage]
    /\ UNCHANGED <<state, initialized, listeners, isBatching, pendingNotify,
                   storage, stack, batchDepth, lastOp, callRecv, lastRecv,
                   delivered, nested, regs, calls, pre, twin, guardWrites,
                   visible>>

\* A mutator called by an effect of a widget.
StoreCall(op, st, sto) ==
    /\ Called(op, TwinState(twin, op))
    /\ state' = st
    /\ Notify(isBatching, st, sto, None)
    /\ UNCHANGED <<initialized, listeners, isBatching, batchDepth, lastRecv,
                   regs, calls>>

\* MultiSelectDropdown: the render and the first effect, store.subscribe(
\* updateOptions).
MultiMount ==
    /\ ui.kind = "multi"
    /\ ~ui.multi.mounted
    /\ Subscribe(OptionsObserver)
    /\ ui' = [ui EXCEPT !.multi = [MultiRendered(state, initialized)
                                     EXCEPT !.step = "sync"]]

\* The second effect: store.setFilter(filterKey, selectedOptions,
\* isFirstRun.current).
MultiSync ==
    /\ ui.multi.step = "sync"
    /\ StoreCall([Op("setFilter", None, ui.multi.isFirstRun, FALSE)
                     EXCEPT !.key = MultiFilterKey,
                            !.value = ListValue(ui.multi.selectedOptions)],
                 SetFilterState(state, MultiFilterKey,
                                ListValue(ui.multi.selectedOptions),
                                ui.multi.isFirstRun),
                 ResetPageStorage(storage, ui.multi.isFirstRun))
    /\ ui' = [ui EXCEPT !.multi.isFirstRun = FALSE, !.multi.step = "listen"]

\* The third effect: store.subscribe of the listener of the store's value.
MultiListen ==
    /\ ui.multi.step = "listen"
    /\ Subscribe(WidgetObserver)
    /\ ui' = [ui EXCEPT !.multi.step = "done"]

\* RangeSlider: the render and the first effect, store.subscribe(
\* handleStoreUpdate).
SliderMount ==
    /\ ui.kind = "slider"
    /\ ~ui.slider.mounted
    /\ Subscribe(WidgetObserver)
    /\ ui' = [ui EXCEPT !.slider = SliderRendered(state, initialized)]

\* The subscribe effect runs again when the data bounds changed: its
\* cleanup, then store.subscribe.
SliderCleanup ==
    /\ ui.slider.resub = "cleanup"
    /\ Unsubscribe(WidgetObserver)
    /\ ui' = [ui EXCEPT !.slider.resub = "subscribe"]

SliderResubscribe ==
    /\ ui.slider.resub = "subscribe"
    /\ Subscribe(WidgetObserver)
    /\ ui' = [ui EXCEPT !.slider.resub = "no"]

\* The second effect, "Sync applied filter to store".
SliderSync ==
    /\ ui.slider.dirty
    /\ ui.slider.resub = "no"
    /\ IF ui.slider.applied # ui.slider.data
       THEN StoreCall([Op("setFilter", None, ui.slider.isFirstRun, FALSE)
                          EXCEPT !.key = SliderFilterKey,
                                 !.value = ui.slider.applied],
                      SetFilterState(state, SliderFilterKey, ui.slider.applied,
                                     ui.slider.isFirstRun),
                      ResetPageStorage(storage, ui.slider.isFirstRun))
       ELSE StoreCall([Op("removeFilter", None, ui.slider.isFirstRun, FALSE)
                          EXCEPT !.key = SliderFilterKey],
                      RemoveFilterState(state, SliderFilterKey,
                                        ui.slider.isFirstRun),
                      ResetPageStorage(storage, ui.slider.isFirstRun))
    /\ ui' = [ui EXCEPT !.slider.isFirstRun = FALSE, !.slider.dirty = FALSE]

\* The effects of the mount have all run: timers may fire.
MountCommitted ==
    CASE ui.kind = "search" -> ui.search.mounted
      [] ui.kind = "multi" -> ui.multi.step = "done"
      [] ui.kind = "slider" -> ui.slider.mounted /\ ~ui.slider.isFirstRun
      [] OTHER -> FALSE

\* The cards a scan finds: with a price, and one without.
IngestInputs == {<<1, 2, 3>>, <<3>>}

\* The Broadcaster's scan, 100 ms after its mount, gives the cards to the
\* store.
Ingest(arr) ==
    /\ MountCommitted
    /\ SetItems(FALSE, arr)
    /\ UNCHANGED ui

\* A notification reaches a listener of the page's widget.
ListenerRuns(u, l, snap) ==
    IF l # WidgetObserver THEN u
    ELSE CASE u.kind = "search" -> [u EXCEPT !.search = SearchListener(@, snap)]
           [] u.kind = "multi" -> [u EXCEPT !.multi = MultiListener(@, snap)]
           [] u.kind = "slider" -> [u EXCEPT !.slider = SliderListener(@, snap)]
           [] OTHER -> u

ReloadDeliver ==
    /\ Deliver
    /\ ui' = ListenerRuns(ui, Head(stack[Len(stack)].todo),
                          stack[Len(stack)].snap)

NextReload ==
    \/ (TopLevel /\ \E kind \in WidgetKinds : PageLoads(kind))
    \/ (TopLevel /\ ui.kind = "search" /\ SearchMount)
    \/ (TopLevel /\ ui.kind = "search" /\ SearchTimer)
    \/ (TopLevel /\ MultiMount)
    \/ (TopLevel /\ MultiSync)
    \/ (TopLevel /\ MultiListen)
    \/ (TopLevel /\ SliderMount)
    \/ (TopLevel /\ SliderCleanup)
    \/ (TopLevel /\ SliderResubscribe)
    \/ (TopLevel /\ SliderSync)
    \/ (TopLevel /\ \E arr \in IngestInputs : Ingest(arr))
    \/ ReloadDeliver
    \/ (Return /\ UNCHANGED ui)

SpecReload == InitReload /\ [][NextReload]_vars

\* ------------------------------------------------ the pagination widget

PagerModes == {"pagination", "loadMore"}

\* The page numbers a click may carry: those of the buttons, and the
\* neighbours of the first and of the last.
ClickedPages == 0..4

\* The first effect, its first half: store.setPagination with the props
\* and the page of the first render (1 while persistPage is off).
PagerMount(mode) ==
    /\ ui.pager.step = "mount"
    /\ StoreCall([Op("setPagination", None, FALSE, FALSE)
                     EXCEPT !.config = [itemsPerPage |-> ui.pager.itemsPerPage,
                                        isEnabled |-> TRUE, mode |-> mode,
                                        persistPage |-> FALSE,
                                        currentPage |-> ui.pager.currentPage]],
                 SetPaginationState(state,
                                    [itemsPerPage |-> ui.pager.itemsPerPage,
                                     isEnabled |-> TRUE, mode |-> mode,
                                     persistPage |-> FALSE,
                                     currentPage |-> ui.pager.currentPage]),
                 storage)
    /\ ui' = [ui EXCEPT !.pager.step = "subscribe", !.pager.mode = mode]

\* The first effect, its second half: store.subscribe.
PagerSubscribe ==
    /\ ui.pager.step = "subscribe"
    /\ Subscribe(WidgetObserver)
    /\ ui' = [ui EXCEPT !.pager.step = "done"]

\* The widget renders its buttons.
PagerShown ==
    /\ ui.pager.step = "done"
    /\ ui.pager.totalItems # 0

\* handlePageClick.
PagerPageClick(page) ==
    /\ PagerShown
    /\ ui.pager.mode = "pagination"
    /\ page # ui.pager.currentPage
    /\ page >= 1
    /\ page <= ui.pager.totalPages
    /\ StoreCall([Op("setPage", None, FALSE, FALSE) EXCEPT !.page = page],
                 SetPageState(state, page), storage)
    /\ UNCHANGED ui

\* handleLoadMore: the button is rendered while currentPage < totalPages.
PagerLoadMore ==
    /\ PagerShown
    /\ ui.pager.mode = "loadMore"
    /\ ~ui.pager.isLoading
    /\ ui.pager.currentPage < ui.pager.totalPages
    /\ ui' = [ui EXCEPT !.pager.isLoading = TRUE,
                        !.pager.timers = @ \cup {ui.pager.currentPage + 1}]
    /\ UNCHANGED <<state, initialized, listeners, isBatching, pendingNotify,
                   storage, stack, batchDepth, lastOp, callRecv, lastRecv,
                   delivered, nested, regs, calls, pre, twin, guardWrites,
                   visible>>

\* The timer of handleLoadMore fires: store.setPage(currentPage + 1) with
\* the currentPage of the render of the click.
PagerTimer ==
    \E page \in ui.pager.timers :
        /\ StoreCall([Op("setPage", None, FALSE, FALSE) EXCEPT !.page = page],
                     SetPageState(state, page), storage)
        /\ ui' = [ui EXCEPT !.pager.isLoading = FALSE,
                            !.pager.timers = @ \ {page}]

PagerDeliver ==
    /\ Deliver
    /\ ui' = IF Head(stack[Len(stack)].todo) = WidgetObserver
             THEN [ui EXCEPT !.pager = PagerListener(@, stack[Len(stack)].snap)]
             ELSE ui

\* The Broadcaster's scan and the filter widgets.
PagerPageCalls ==
    \/ \E arr \in {<<1, 2, 3>>, <<3>>} : SetItems(FALSE, arr)
    \/ \E opts \in {<<<<"b", "l", "u", "e">>>>, <<>>} :
          SetFilter(MultiFilterKey, ListValue(opts), FALSE)
    \/ SetSearch(<<"r", "e", "d">>, FALSE)

NextPager ==
    \/ (TopLevel /\ \E mode \in PagerModes : PagerMount(mode))
    \/ (TopLevel /\ PagerSubscribe)
    \/ (TopLevel /\ \E page \in ClickedPages : PagerPageClick(page))
    \/ (TopLevel /\ PagerLoadMore)
    \/ (TopLevel /\ PagerTimer)
    \/ (TopLevel /\ PagerPageCalls /\ UNCHANGED ui)
    \/ PagerDeliver
    \/ (Return /\ UNCHANGED ui)

SpecPager == InitEmptyStorage /\ [][NextPager]_vars

\* -------------------------------------- the range slider's selection

\* The values a range input with min, max and step 1 can take, near its
\* two ends.
RangeStops(lo, hi) ==
    {v \in {lo, lo + 10, hi - ((hi - lo) % 10)} : lo <= v /\ v <= hi}

\* Where on the track a click lands, in percent of its width.
ClickPercents == {0, 40, 100}

\* What the user types in a field.
FieldTexts == {<<"1", "0">>, <<"1", "3">>, <<"x">>}

\* getValueFromPercent: Math.round(dataMin + (percent / 100) * (dataMax -
\* dataMin)).
getValueFromPercent(percent, data) ==
    10 * ((100 * data.lo + percent * (data.hi - data.lo) + 500) \div 1000)

Distance(a, b) == IF a >= b THEN a - b ELSE b - a

\* The render and the first effect, with the pending selection.
SelMount ==
    /\ ui.kind = "slider"
    /\ ~ui.slider.mounted
    /\ Subscribe(WidgetObserver)
    /\ ui' = [ui EXCEPT !.slider = SliderRendered(state, initialized),
                        !.sel = SelSet(@, SliderRendered(state, initialized).applied.lo,
                                       SliderRendered(state, initialized).applied.hi)]

\* The widget is mounted, it has taken its bounds from the collection and
\* its effects have run: the user can act.
SelIdle ==
    /\ ui.kind = "slider"
    /\ ui.slider.mounted
    /\ ui.slider.lastScanned.set
    /\ SliderValues(ui.slider.lastScanned.items, SliderFilterKey.name) # {}
    /\ ~ui.slider.dirty
    /\ ui.slider.resub = "no"

\* The cards the Broadcaster's scans find.
SelScans == {<<1, 2, 3>>, <<2, 1>>}

SelStoreUnchanged ==
    UNCHANGED <<state, initialized, listeners, isBatching, pendingNotify,
                storage, stack, batchDepth, lastOp, callRecv, lastRecv,
                delivered, nested, regs, calls, pre, twin, guardWrites,
                visible>>

\* onChange of the first range input.
SelMoveMin(v) ==
    /\ SelIdle
    /\ ui' = [ui EXCEPT !.sel = SelSet(@, MinOf(v, @.maxVal - 10), @.maxVal)]
    /\ SelStoreUnchanged

\* onChange of the second range input.
SelMoveMax(v) ==
    /\ SelIdle
    /\ ui' = [ui EXCEPT !.sel = SelSet(@, @.minVal, MaxOf(v, @.minVal + 10))]
    /\ SelStoreUnchanged

\* handleTrackClick.
SelTrackClick(percent) ==
    /\ SelIdle
    /\ ui' = [ui EXCEPT !.sel =
         IF Distance(getValueFromPercent(percent, ui.slider.data), @.minVal)
            < Distance(getValueFromPercent(percent, ui.slider.data), @.maxVal)
         THEN SelSet(@, MaxOf(MinOf(getValueFromPercent(percent, ui.slider.data),
                                    @.maxVal - 10),
                              ui.slider.data.lo),
                     @.maxVal)
         ELSE SelSet(@, @.minVal,
                     MinOf(MaxOf(getValueFromPercent(percent, ui.slider.data),
                                 @.minVal + 10),
                           ui.slider.data.hi))]
    /\ SelStoreUnchanged

\* The user types text in the first field and leaves it or presses
\* Enter: onChange (setMinString), then handleMinCommit.
SelMinCommit(text) ==
    /\ SelIdle
    /\ ui' = [ui EXCEPT !.sel =
         LET val == IF ParseFloat(text).nan THEN ui.slider.data.lo
                    ELSE ParseFloat(text).v
             new == MaxOf(ui.slider.data.lo, MinOf(val, @.maxVal))
         IN  [SelSet(@, new, @.maxVal) EXCEPT !.minString = NumberString(new)]]
    /\ SelStoreUnchanged

\* The same in the second field: setMaxString, then handleMaxCommit.
SelMaxCommit(text) ==
    /\ SelIdle
    /\ ui' = [ui EXCEPT !.sel =
         LET val == IF ParseFloat(text).nan THEN ui.slider.data.hi
                    ELSE ParseFloat(text).v
             new == MinOf(ui.slider.data.hi, MaxOf(val, @.minVal))
         IN  [SelSet(@, @.minVal, new) EXCEPT !.maxString = NumberString(new)]]
    /\ SelStoreUnchanged

\* handleApply: setAppliedMin/Max, then store.removeFilter or
\* store.setFilter with the pending selection.
SelApply ==
    /\ SelIdle
    /\ IF ui.sel.minVal = ui.slider.data.lo /\ ui.sel.maxVal = ui.slider.data.hi
       THEN RemoveFilter(SliderFilterKey, FALSE)
       ELSE SetFilter(SliderFilterKey,
                      RangeValue(ui.sel.minVal, ui.sel.maxVal), FALSE)
    /\ ui' = [ui EXCEPT !.slider = SliderSet(@, @.data,
                                             RangeValue(ui.sel.minVal,
                                                        ui.sel.maxVal))]

SelDeliver ==
    /\ Deliver
    /\ ui' = [ListenerRuns(ui, Head(stack[Len(stack)].todo),
                           stack[Len(stack)].snap)
                EXCEPT !.sel = IF Head(stack[Len(stack)].todo) = WidgetObserver
                               THEN SelListener(@, ui.slider,
                                                stack[Len(stack)].snap)
                               ELSE @]

NextSel ==
    \/ (TopLevel /\ PageLoads("slider"))
    \/ (TopLevel /\ SelMount)
    \/ (TopLevel /\ SliderCleanup)
    \/ (TopLevel /\ SliderResubscribe)
    \/ (TopLevel /\ SliderSync)
    \/ (TopLevel /\ \E arr \in SelScans : Ingest(arr))
    \/ (TopLevel /\ \E v \in RangeStops(ui.slider.data.lo, ui.slider.data.hi) :
                        SelMoveMin(v))
    \/ (TopLevel /\ \E v \in RangeStops(ui.slider.data.lo, ui.slider.data.hi) :
                        SelMoveMax(v))
    \/ (TopLevel /\ \E percent \in ClickPercents : SelTrackClick(percent))
    \/ (TopLevel /\ \E text \in FieldTexts : SelMinCommit(text))
    \/ (TopLevel /\ \E text \in FieldTexts : SelMaxCommit(text))
    \/ (TopLevel /\ SelApply)
    \/ SelDeliver
    \/ (Return /\ UNCHANGED ui)

SpecSel == InitEmptyStorage /\ [][NextSel]_vars

\* ------------------------------------- the multi-select and the store

\* The multi-select has rendered, its effects have run and it has nothing
\* to render: the page's other parts get their turn.
MultiSettled == ui.multi.step = "done" /\ TopLevel

\* What the page's other parts do to the store: another widget on the same
\* key sets it, ActiveTags removes its last tag or clears all, RangeSlider
\* sets its own key, the Broadcaster scans.
ElsewhereCalls ==
    \/ \E opts \in {<<<<"r", "e", "d">>>>,
                     <<<<"r", "e", "d">>, <<"b", "l", "u", "e">>>>, <<>>} :
          SetFilter(MultiFilterKey, ListValue(opts), FALSE)
    \/ SetFilter(SliderFilterKey, RangeValue(100, 125), FALSE)
    \/ ResetFilters
    \/ SetItems(FALSE, <<1, 2, 3>>)

\* The render that follows setSelectedOptions: the cleanup of the third
\* effect takes the listener off before any effect runs again.
MultiCleanup ==
    /\ ui.multi.step = "sync"
    /\ WidgetObserver \in Range(listeners)
    /\ Unsubscribe(WidgetObserver)
    /\ UNCHANGED ui

\* What the widget and the store do by themselves once something changed.
ConvergeSteps ==
    \/ (TopLevel /\ MultiCleanup)
    \/ (TopLevel /\ WidgetObserver \notin Range(listeners) /\ MultiSync)
    \/ (TopLevel /\ MultiListen)
    \/ ReloadDeliver
    \/ (Return /\ UNCHANGED ui)

NextConverge ==
    \/ (TopLevel /\ PageLoads("multi"))
    \/ (TopLevel /\ MultiMount)
    \/ (MultiSettled /\ ElsewhereCalls /\ UNCHANGED ui)
    \/ ConvergeSteps

SpecConverge == Init /\ [][NextConverge]_vars

\* React runs the pending render and its effects, and the store goes
\* through its listeners, without waiting for anything.
SpecConvergeFair == SpecConverge /\ WF_vars(ConvergeSteps)

\* ------------------------------------------------------------ the widgets

\* The children of the container at a scan: all the cards, one card, none.
ScanInputs == {<<1, 2, 3>>, <<1>>, <<>>}

\* The configurations given to setPagination: the pagination widget's mount
\* configuration (part_004 lines 38-44) for its three modes, and a
\* configuration that disables pagination.
WidgetConfigs ==
    {[itemsPerPage |-> 1, isEnabled |-> TRUE, mode |-> "pagination",
      persistPage |-> FALSE, currentPage |-> 1],
     [itemsPerPage |-> 2, isEnabled |-> TRUE, mode |-> "loadMore",
      persistPage |-> FALSE, currentPage |-> 1],
     [itemsPerPage |-> 1, isEnabled |-> TRUE, mode |-> "autoScroll",
      persistPage |-> TRUE, currentPage |-> 2],
     [isEnabled |-> FALSE]}

WidgetPages == {1, 2, 3}

\* Broadcaster.scanItems, up to the return of store.setItems(itemsData).
\* The scan runs from a timer, never inside a batch; the records it passes
\* are raw.  The frame it leaves keeps itemsData.length for the guard.
Scan(arr) ==
    /\ ~isBatching
    /\ calls < MaxScanCalls
    /\ calls' = calls + 1
    /\ Called([Op("scan", None, FALSE, SetItemsNoop(state, FALSE, arr))
                  EXCEPT !.arr = arr],
              SetItemsState(twin, FALSE, arr))
    /\ LET st == SetItemsState(state, FALSE, arr)
       IN  /\ state' = st
           /\ IF SetItemsNoop(state, FALSE, arr)
              THEN /\ storage' = storage
                   /\ stack' = Append(stack,
                         [Frame("return", Snapshot(st), <<>>, "scan")
                             EXCEPT !.arg = Len(arr)])
              ELSE /\ storage' = PersistState(st, storage)
                   /\ stack' = Append(stack,
                         [Frame("notify", Snapshot(st), listeners, "scan")
                             EXCEPT !.arg = Len(arr)])
    /\ UNCHANGED <<initialized, listeners, isBatching, pendingNotify, batchDepth,
                   lastRecv, regs>>

\* scanItems line 71-73, the condition of the guard.
ScanGuardHolds(st) == st.pagination.isEnabled /\ st.pagination.totalItems = 0

\* setPagination({ totalItems: n }) as a function of the state
GuardState(st, n) ==
    IF ScanGuardHolds(st) THEN SetPaginationState(st, [totalItems |-> n]) ELSE st

\* Broadcaster.scanItems after store.setItems has returned: the guard and
\* its store.setPagination({ totalItems: itemsData.length }).
ScanGuard ==
    /\ stack # <<>>
    /\ LET n == Len(stack)
           f == stack[n]
       IN  /\ f.todo = <<>>
           /\ f.after = "scan"
           /\ state' = GuardState(state, f.arg)
           /\ twin' = GuardState(twin, f.arg)
           /\ IF ScanGuardHolds(state)
              THEN /\ guardWrites' = guardWrites + 1
                   /\ storage' = PersistState(GuardState(state, f.arg), storage)
                   /\ stack' = Append(SubSeq(stack, 1, n - 1),
                                      Frame("notify",
                                            Snapshot(GuardState(state, f.arg)),
                                            listeners, None))
              ELSE /\ stack' = SubSeq(stack, 1, n - 1)
                   /\ UNCHANGED <<guardWrites, storage>>
    /\ UNCHANGED <<initialized, listeners, isBatching, pendingNotify, batchDepth,
                   lastOp, callRecv, lastRecv, delivered, nested, regs, calls,
                   pre, visible>>

\* The listeners of the window event "reset-broadcast-filters": the one
\* lazyInit adds (part_000 lines 99-101), once, when the store initializes.
ResetListeners(init) == IF init THEN 1 ELSE 0

\* The host page dispatches the event "reset-broadcast-filters": each
\* registered listener calls resetFilters().
ResetSignal ==
    /\ calls < MaxScanCalls
    /\ calls' = calls + 1
    /\ Called([Op("resetSignal", None, FALSE, ~initialized)
                  EXCEPT !.resets = ResetListeners(initialized)],
              IF ResetListeners(initialized) > 0
              THEN ResetFiltersState(twin) ELSE twin)
    /\ IF ResetListeners(initialized) > 0
       THEN /\ state' = ResetFiltersState(state)
            /\ Notify(isBatching, ResetFiltersState(state),
                      updateStoragePage(storage, 1), "reset")
       ELSE UNCHANGED <<state, storage, pendingNotify, stack>>
    /\ UNCHANGED <<initialized, listeners, isBatching, batchDepth, lastRecv, regs>>

\* The calls the widgets make on the user's actions.
WidgetMutators ==
    \/ \E in \in FilterInputs : SetFilter(in[1], in[2], FALSE)
    \/ \E query \in SearchInputs : SetSearch(query, FALSE)
    \/ ResetFilters
    \/ \E config \in WidgetConfigs : SetPagination(config)
    \/ \E page \in WidgetPages : SetPage(page)

\* The Broadcaster (observer o1) and DisplayGrid (observer o2) on a page
\* with the filter widgets: scans, the widgets' calls, no batch.
NextWidgets ==
    \/ (TopLevel /\ \E arr \in ScanInputs : Scan(arr) /\ UNCHANGED ui)
    \/ (ScanGuard /\ UNCHANGED ui)
    \/ (TopLevel /\ WidgetMutators /\ UNCHANGED ui)
    \/ (TopLevel /\ ResetSignal /\ UNCHANGED ui)
    \/ (TopLevel /\ \E o \in Observers : (regs[o] = 0 /\ Subscribe(o)) /\ UNCHANGED ui)
    \/ (Deliver /\ UNCHANGED ui)
    \/ (Return /\ UNCHANGED ui)

SpecWidgets == Init /\ [][NextWidgets]_vars

\* ------------------------------------------------------------- properties

Recomputed ==
    \/ lastOp.name \in {"setFilter", "removeFilter", "setSearch", "setSort",
                        "resetFilters"}
    \/ (lastOp.name = "setItems" /\ ~lastOp.noop)

\* C1: after every recomputation (a setItems that is not a no-op, setFilter,
\* removeFilter, setSearch, setSort, resetFilters), and until the next call,
\* pagination.totalItems is the length of filteredItems.
C1_TotalIsLength ==
    Recomputed => state.pagination.totalItems = Len(state.filteredItems)

\* A search has left two of the three items, and the total follows.
C1_Witness ==
    /\ lastOp.name = "setSearch"
    /\ Len(state.items) = 3
    /\ Len(state.filteredItems) = 2
    /\ state.pagination.totalItems = 2

\* C2: in every snapshot handed to an observer, filteredItems is what the
\* snapshot's items, activeFilters, searchQuery and sortConfig compute: the
\* matching items, in the order of the sort configuration.
C2_SnapshotConsistent ==
    delivered.to # None =>
        delivered.snap.filteredItems =
            ComputeFiltered(delivered.snap.items, delivered.snap.activeFilters,
                            delivered.snap.searchQuery, delivered.snap.sortConfig)

\* C3: an observer's write into a snapshot it was handed changes neither
\* the store's state nor the snapshot the listeners still to be called in
\* the round are going to receive.
C3_SnapshotIsolated ==
    [][lastOp'.name = "mutateSnapshot" =>
          /\ state' = state
          /\ \A i \in 1..Len(stack) :
                stack[i].todo # <<>> => stack'[i].snap = stack[i].snap]_vars

NoNotifyRound == \A i \in 1..Len(stack) : stack[i].kind # "notify"

\* C4: in a batch(fn) that is not nested, no observer is notified while fn
\* runs; when fn has called a mutator, each registered observer is notified
\* exactly once after fn has returned, with the state the calls have
\* produced.
C4_BatchCoalesces ==
    /\ (isBatching /\ batchDepth = 1) => NoNotifyRound
    /\ (TopLevel /\ lastOp.name = "batchEnd" /\ lastOp.plain /\ ~lastOp.noop) =>
          \A o \in Observers :
              IF o \in Range(listeners)
              THEN callRecv[o] = 1 /\ lastRecv[o] = Snapshot(state)
              ELSE callRecv[o] = 0

\* A batch with a mutator has ended and both observers were notified.
C4_Witness ==
    /\ TopLevel
    /\ lastOp.name = "batchEnd" /\ lastOp.plain /\ ~lastOp.noop
    /\ Range(listeners) = Observers
    /\ calls = 2
    /\ state.searchQuery # <<>>
    /\ \A o \in Observers : callRecv[o] = 1 /\ lastRecv[o] = Snapshot(state)

\* C5: with nested batches, no notification is delivered before the
\* outermost fn has returned.
C5_NestedBatchCoalesces == batchDepth > 0 => NoNotifyRound

\* C6: no observer is handed an older snapshot after a newer one, and when
\* all calls have returned the last snapshot of each registered observer is
\* the store's state.
C6_InOrder ==
    /\ ~delivered.stale
    /\ (TopLevel /\ ~isBatching /\ ~pendingNotify) =>
          \A o \in Range(listeners) : lastRecv[o] = Snapshot(state)

\* C7: subscribe(observer) invokes that observer once, with the store's
\* state, before it returns, and invokes no other observer.
C7_SubscribeDelivers ==
    lastOp.name = "subscribe" =>
        /\ \A o \in Observers \ {lastOp.obs} : callRecv[o] = 0
        /\ callRecv[lastOp.obs] <= 1
        /\ TopLevel =>
              /\ callRecv[lastOp.obs] = 1
              /\ delivered.to = lastOp.obs
              /\ delivered.snap = state

\* The second observer has subscribed after the first one restored the
\* session: it was handed the restored state and the first one was not
\* invoked.
C7_Witness ==
    /\ TopLevel
    /\ lastOp.name = "subscribe" /\ lastOp.obs = "o2"
    /\ "o1" \in Range(listeners)
    /\ calls = 0
    /\ lastRecv["o2"].pagination.currentPage = 2
    /\ lastRecv["o2"].activeFilters # NoFilters
    /\ callRecv = [o \in Observers |-> IF o = "o2" THEN 1 ELSE 0]

\* C8: an observer whose disposer has been called is not invoked any more,
\* also when the disposer is called during a round; and every round in
\* progress has called, or is going to call, each registered observer.
C8_DisposedNotInvoked ==
    /\ delivered.registered
    /\ \A i \in 1..Len(stack) :
          stack[i].kind = "notify" =>
              Range(listeners) \subseteq (stack[i].done \cup Range(stack[i].todo))

\* The first observer, in its callback, has called the disposer of the
\* second one, which the round then has not called.
C8_Witness ==
    /\ Len(stack) = 1
    /\ stack[1].kind = "notify"
    /\ stack[1].invited = Observers
    /\ stack[1].done = {"o1"}
    /\ stack[1].todo = <<>>
    /\ listeners = <<"o1">>
    /\ nested = 1

Count(seq, o) == Cardinality({i \in 1..Len(seq) : seq[i] = o})

NotifyingOps == {"setFilter", "removeFilter", "setSearch", "setSort",
                 "resetFilters", "setPagination", "setPage"}

\* C9 as stated: each subscribe whose disposer has not been called is a
\* registration of its own: the observer stays registered, and is invoked
\* once per such registration in a notification.
C9_DistinctRegistrations ==
    /\ \A o \in Observers : regs[o] > 0 => o \in Range(listeners)
    /\ (TopLevel /\ ~isBatching /\ lastOp.name \in NotifyingOps) =>
          \A o \in Observers : callRecv[o] = regs[o]

\* C9 as the code has it: the listeners are a set of functions, so an
\* observer has at most one registration, is invoked once per notification,
\* and each of its disposers removes that registration.
C9_OneRegistration ==
    /\ \A o \in Observers : Count(listeners, o) <= 1
    /\ (TopLevel /\ ~isBatching /\ lastOp.name \in NotifyingOps) =>
          \A o \in Observers :
              callRecv[o] = IF o \in Range(listeners) THEN 1 ELSE 0
    /\ lastOp.name = "unsubscribe" => lastOp.obs \notin Range(listeners)

\* An observer subscribed twice has called one disposer and is gone.
C9_Witness ==
    /\ lastOp.name = "unsubscribe" /\ lastOp.obs = "o1"
    /\ regs["o1"] = 1
    /\ "o1" \notin Range(listeners)

AllAbsent ==
    /\ ~storage.filters.has
    /\ ~storage.search.has
    /\ ~storage.sort.has
    /\ ~storage.page.has

\* C10: when resetFilters() has returned there is no active filter, the
\* search is empty, the sort field is null, the page is 1 and none of the
\* four storage entries is present.
C10_ResetComplete ==
    (TopLevel /\ lastOp.name = "resetFilters") =>
        /\ state.activeFilters = NoFilters
        /\ state.searchQuery = <<>>
        /\ state.sortConfig.field = NullField
        /\ state.pagination.currentPage = 1
        /\ AllAbsent

\* A reset outside batch, with an observer, in a store that persists its
\* page.
C10_Witness ==
    /\ TopLevel
    /\ lastOp.name = "resetFilters"
    /\ ~isBatching
    /\ listeners # <<>>
    /\ state.pagination.persistPage
    /\ AllAbsent

EmptyFilterValue(value) ==
    value.t = "none" \/ (value.t = "list" /\ Len(value.opts) = 0)

\* C11: after setFilter(k, []) or setFilter(k, null) the key k is absent from
\* the active filters, whatever it mapped to before, and filteredItems is
\* what the other filters, the search and the sort compute.
C11_EmptyValueRemoves ==
    (lastOp.name = "setFilter" /\ EmptyFilterValue(lastOp.value)) =>
        /\ state.activeFilters[lastOp.key] = NoValue
        /\ state.filteredItems =
              ComputeFiltered(state.items,
                              [pre.activeFilters EXCEPT ![lastOp.key] = NoValue],
                              state.searchQuery, state.sortConfig)

\* The colour filter restored from the session kept two of three items;
\* setFilter(colour, []) has removed it and all three are back.
C11_Witness ==
    /\ lastOp.name = "setFilter" /\ EmptyFilterValue(lastOp.value)
    /\ pre.activeFilters[lastOp.key].t = "list"
    /\ Len(pre.filteredItems) = 2
    /\ Len(state.filteredItems) = 3
    /\ state.activeFilters = NoFilters

\* C12: after setFilter(k, [min, max]) on a range key k, with [min, max] the
\* full bounds of the items' values for k's field, k is absent from the
\* active filters.
C12_FullRangeRemoves ==
    (/\ lastOp.name = "setFilter"
     /\ lastOp.key.prefix = SliderPrefix
     /\ state.items # <<>>
     /\ lastOp.value = DataBounds(state.items, LayerName(lastOp.key))) =>
        state.activeFilters[lastOp.key] = NoValue

\* C13: setFilter, removeFilter and setSearch leave currentPage at 1 when
\* preventPageReset is false and as it was when it is true; setSort and
\* resetFilters leave it at 1.
C13_PageReset ==
    /\ lastOp.name \in {"setFilter", "removeFilter", "setSearch"} =>
          state.pagination.currentPage =
              IF lastOp.prevent THEN pre.pagination.currentPage ELSE 1
    /\ lastOp.name \in {"setSort", "resetFilters"} =>
          state.pagination.currentPage = 1

\* A search with preventPageReset has kept the restored page 2.
C13_Witness ==
    /\ lastOp.name = "setSearch" /\ lastOp.prevent
    /\ lastOp.query # <<>>
    /\ pre.pagination.currentPage = 2
    /\ state.pagination.currentPage = 2
    /\ state.searchQuery = lastOp.query

CriteriaAndItems(st) ==
    <<st.items, st.activeFilters, st.searchQuery, st.sortConfig, st.filteredItems>>

\* C14: setPage(n) and setPagination(partial) leave items, activeFilters,
\* searchQuery, sortConfig and filteredItems as they were, change only the
\* pagination fields they are given and, outside batch, call each
\* registered observer exactly once.
C14_PaginationOnly ==
    lastOp.name \in {"setPage", "setPagination"} =>
        /\ CriteriaAndItems(state) = CriteriaAndItems(pre)
        /\ lastOp.name = "setPage" =>
              state.pagination =
                  [pre.pagination EXCEPT !.currentPage = lastOp.page]
        /\ lastOp.name = "setPagination" =>
              \A f \in DOMAIN state.pagination :
                  state.pagination[f] =
                      IF f \in DOMAIN lastOp.config THEN lastOp.config[f]
                      ELSE pre.pagination[f]
        /\ \A o \in Observers : callRecv[o] <= 1
        /\ (TopLevel /\ ~isBatching) =>
              \A o \in Observers :
                  callRecv[o] = IF o \in Range(listeners) THEN 1 ELSE 0

\* The pagination widget's configuration has reached the observer of a
\* store that holds three items.
C14_Witness ==
    /\ TopLevel /\ ~isBatching
    /\ lastOp.name = "setPagination"
    /\ "mode" \in DOMAIN lastOp.config
    /\ Len(state.filteredItems) = 3
    /\ pre.pagination.itemsPerPage = 12
    /\ state.pagination.itemsPerPage = 1
    /\ callRecv["o1"] = 1
    /\ lastRecv["o1"] = Snapshot(state)

\* C15: a setItems call with the same array of the same raw records as the
\* call before it is a no-op: no recomputation, no notification.
C15_RepeatedSetItemsIsNoop ==
    (lastOp.name = "setItems" /\ lastOp.repeated /\ ~lastOp.processed) =>
        /\ lastOp.noop
        /\ \A o \in Observers : callRecv[o] = 0

\* C16: through any sequence of the widgets' mutators and of item scans,
\* the scan's guard writes pagination.totalItems at most once, and once the
\* store holds items (a recomputation has run) totalItems is the length of
\* filteredItems whenever no call is in progress, also when the criteria
\* match no item.
C16_TotalDerived ==
    /\ guardWrites <= 1
    /\ (TopLevel /\ state.items # <<>>) =>
           state.pagination.totalItems = Len(state.filteredItems)

MutatorNames == {"setItems", "setFilter", "removeFilter", "setSearch", "setSort",
                 "resetFilters", "setPagination", "setPage"}

\* C17: sessionStorage is read by the first subscribe only.  Before it the
\* state holds the construction defaults (and then what the calls alone
\* made of them: the state of the store whose storage cannot be read); the
\* first subscribe assigns the stored page, filters and sort (and the stored
\* search when it is not empty); a later subscribe leaves the state as it
\* was; a mutator's result depends on the state and its arguments only.
C17_StorageReadOnce ==
    /\ (~initialized /\ calls = 0) => state = InitialState
    /\ ~initialized => state = twin
    /\ (lastOp.name = "subscribe" /\ lastOp.first /\ storage = SavedSession) =>
           /\ state.pagination.currentPage = 2
           /\ state.activeFilters[[prefix |-> MultiPrefix, name |-> "color"]] =
                  ListValue(<<<<"r", "e", "d">>>>)
           /\ state.activeFilters[[prefix |-> SliderPrefix, name |-> "price"]] =
                  NoValue
           /\ state.searchQuery = pre.searchQuery
           /\ state.sortConfig = DefaultSort
    /\ (lastOp.name = "subscribe" /\ ~lastOp.first) => state = pre
    /\ lastOp.name \in MutatorNames => state = TwinState(pre, lastOp)

\* A later subscribe, after the first one restored the filters of an earlier
\* page load, while the stored page is not the page in memory.
C17_Witness ==
    /\ lastOp.name = "subscribe"
    /\ ~lastOp.first
    /\ storage.page.has
    /\ storage.page.v # IntString(state.pagination.currentPage)
    /\ state.items = <<>>
    /\ state.activeFilters[[prefix |-> MultiPrefix, name |-> "color"]] =
           ListValue(<<<<"r", "e", "d">>>>)

\* C18: with a sessionStorage that throws on every operation, the state in
\* memory is, after the same calls, the state of the store whose storage
\* works and was empty at first (and so are the snapshots, which are copies
\* of the state).
C18_StorageFailureInvisible == state = twin

\* The positions lo .. hi - 1 (counted from 0) of a list that exist.
PositionsIn(seq, lo, hi) == {i \in 1..Len(seq) : i - 1 >= lo /\ i - 1 < hi}

\* The elements of a list at a set of positions, in the list's order.
ElementsAt(seq, idx) ==
    [k \in 1..Cardinality(idx) |->
        seq[CHOOSE i \in idx : Cardinality({j \in idx : j < i}) = k - 1]]

\* C19: what a widget shows of the snapshot it was last handed is all of
\* filteredItems when pagination is disabled, the positions
\* [(currentPage-1)*itemsPerPage, currentPage*itemsPerPage) in mode
\* pagination, the positions [0, currentPage*itemsPerPage) in the modes
\* loadMore and autoScroll, cut at the end of the list; and the Broadcaster
\* and DisplayGrid show the same items of the same snapshot.
C19_VisibleSlice ==
    /\ \A o \in Observers :
           lastRecv[o] # NoSnapshot =>
              /\ ~lastRecv[o].pagination.isEnabled =>
                     visible[o] = lastRecv[o].filteredItems
              /\ (/\ lastRecv[o].pagination.isEnabled
                  /\ lastRecv[o].pagination.mode = "pagination") =>
                     visible[o] = ElementsAt(lastRecv[o].filteredItems,
                         PositionsIn(lastRecv[o].filteredItems,
                             (lastRecv[o].pagination.currentPage - 1)
                                 * lastRecv[o].pagination.itemsPerPage,
                             lastRecv[o].pagination.currentPage
                                 * lastRecv[o].pagination.itemsPerPage))
              /\ (/\ lastRecv[o].pagination.isEnabled
                  /\ lastRecv[o].pagination.mode \in {"loadMore", "autoScroll"}) =>
                     visible[o] = ElementsAt(lastRecv[o].filteredItems,
                         PositionsIn(lastRecv[o].filteredItems, 0,
                             lastRecv[o].pagination.currentPage
                                 * lastRecv[o].pagination.itemsPerPage))
    /\ lastRecv["o1"] = lastRecv["o2"] => visible["o1"] = visible["o2"]

\* Both widgets hold the same snapshot of three items in mode loadMore,
\* two per page, page 2.
C19_Witness ==
    /\ lastRecv["o1"] = lastRecv["o2"]
    /\ lastRecv["o1"] # NoSnapshot
    /\ Len(lastRecv["o1"].filteredItems) = 3
    /\ lastRecv["o1"].pagination.isEnabled
    /\ lastRecv["o1"].pagination.mode = "loadMore"
    /\ lastRecv["o1"].pagination.itemsPerPage = 2
    /\ lastRecv["o1"].pagination.currentPage = 2
    /\ visible["o2"] = lastRecv["o1"].filteredItems

\* t occurs in s: some position of s starts a copy of t.
OccursIn(t, s) ==
    \E i \in 1..(Len(s) + 1) :
        \A k \in 1..Len(t) : i + k - 1 <= Len(s) /\ s[i + k - 1] = t[k]

\* The item has a value for the field and one of the options, lowercased,
\* is or occurs in one of the item's tokenized values.
SatisfiesMulti(id, field, opts) ==
    /\ GetField(RawItems[id], field) # Undefined
    /\ \E a \in 1..Len(opts) :
           \E b \in 1..Len(Item(id)._multiIndex[field]) :
               OccursIn(ToLowerCase(opts[a]), Item(id)._multiIndex[field][b])

SatisfiesEvery(id, activeFilters) ==
    \A key \in FilterKeys :
        activeFilters[key].t # "none" =>
            IF key.prefix = MultiPrefix
            THEN SatisfiesMulti(id, key.name, activeFilters[key].opts)
            ELSE checkSliderMatch(activeFilters[key], GetField(Item(id), key.name))

\* C20: after a recomputation, an item of filteredItems is an item of the
\* store that satisfies every active filter, and, when there is no search
\* query, every such item is in filteredItems; a multi-select filter is
\* satisfied when one of its options (compared in lowercase) is or occurs
\* in one of the item's tokenized values, and never by an item without a
\* value for the field.
C20_FilterSemantics ==
    Recomputed =>
        \A id \in ItemIds :
            /\ id \in Range(state.filteredItems) =>
                   /\ id \in Range(state.items)
                   /\ SatisfiesEvery(id, state.activeFilters)
            /\ (/\ state.searchQuery = <<>>
                /\ id \in Range(state.items)
                /\ SatisfiesEvery(id, state.activeFilters)) =>
                   id \in Range(state.filteredItems)

\* Two multi-select filters at once over the three items: the color red
\* and a price with a 1; the red item without a price is left out.
C20_Witness ==
    /\ Recomputed
    /\ state.items = <<1, 2, 3>>
    /\ state.activeFilters[[prefix |-> MultiPrefix, name |-> "color"]] =
           ListValue(<<<<"r", "e", "d">>>>)
    /\ state.activeFilters[[prefix |-> MultiPrefix, name |-> "price"]] =
           ListValue(<<<<"1">>>>)
    /\ state.searchQuery = <<>>
    /\ state.filteredItems = <<1>>

PriceKey == [prefix |-> SliderPrefix, name |-> "price"]

\* C21: after a recomputation with a range filter [min, max] on price as
\* the only criterion, the card with price "10" is in filteredItems iff it
\* is in the collection and min <= 10 <= max, the card with "12,5" (125 as
\* the store reads it) iff min <= 125 <= max, and the two cards without a
\* price never are; the cards after them are still examined.
C21_RangeInclusive ==
    (/\ Recomputed
     /\ state.activeFilters[PriceKey].t = "pair"
     /\ state.searchQuery = <<>>) =>
        /\ 1 \in Range(state.filteredItems) <=>
               /\ 1 \in Range(state.items)
               /\ state.activeFilters[PriceKey].lo <= 100
               /\ 100 <= state.activeFilters[PriceKey].hi
        /\ 2 \in Range(state.filteredItems) <=>
               /\ 2 \in Range(state.items)
               /\ state.activeFilters[PriceKey].lo <= 1250
               /\ 1250 <= state.activeFilters[PriceKey].hi
        /\ 3 \notin Range(state.filteredItems)
        /\ 4 \notin Range(state.filteredItems)

\* The range [5, 10] over the cards 3, 4, 1: the card priced 10, met after
\* the two cards without a price, is kept at the upper bound.
C21_Witness ==
    /\ Recomputed
    /\ state.items = <<3, 4, 1>>
    /\ state.activeFilters[PriceKey] = RangeValue(50, 100)
    /\ state.filteredItems = <<1>>

WhiteSpace == {" ", Tab}

\* The terms of a text: its longest stretches without white space.
TermsOf(q) ==
    {SubSeq(q, i, j) : <<i, j>> \in
        {p \in (1..Len(q)) \X (1..Len(q)) :
            /\ p[1] <= p[2]
            /\ \A k \in p[1]..p[2] : q[k] \notin WhiteSpace
            /\ (p[1] = 1 \/ q[p[1] - 1] \in WhiteSpace)
            /\ (p[2] = Len(q) \/ q[p[2] + 1] \in WhiteSpace)}}

\* C22: after a recomputation with a search query as the only criterion, a
\* card of the collection is in filteredItems iff every term of the
\* normalized query (the stretches between white space, in any order)
\* occurs in the card's search index; with the empty query every card is.
C22_SearchConjunctive ==
    (Recomputed /\ state.activeFilters = NoFilters) =>
        \A id \in Range(state.items) :
            id \in Range(state.filteredItems) <=>
                \A term \in TermsOf(normalizeText(state.searchQuery)) :
                    OccursIn(term, Item(id)._searchIndex)

\* The value of the sort field of the i-th item of filteredItems.
SortValueAt(st, i) == GetField(RawItems[st.filteredItems[i]], st.sortConfig.field)

\* C23: after a recomputation with a sort field, no item of filteredItems
\* without a value for the field stands before an item that has one, in
\* either direction and with several such items.
C23_NullsLast ==
    (Recomputed /\ state.sortConfig.field # NullField) =>
        \A i, j \in 1..Len(state.filteredItems) :
            (i < j /\ SortValueAt(state, i) = Undefined) =>
                SortValueAt(state, j) = Undefined

\* Descending by price, two cards with a price and two without, the latter
\* met first in the collection.
C23_Witness ==
    /\ Recomputed
    /\ state.sortConfig.field = "price"
    /\ state.sortConfig.direction = "desc"
    /\ state.items = <<3, 4, 1>>
    /\ Len(state.filteredItems) = 3
    /\ state.filteredItems[1] = 1
    /\ SortValueAt(state, 2) = Undefined
    /\ SortValueAt(state, 3) = Undefined

\* C24: a setItems whose collection holds a null record does not raise;
\* the other records are ingested, and filteredItems and totalItems are
\* recomputed from them.
C24_MalformedItemSkipped ==
    (lastOp.name = "setItems" /\ NullItem \in Range(lastOp.arr)) =>
        /\ ~lastOp.raised
        /\ state.items = Without(lastOp.arr, NullItem)
        /\ state.filteredItems =
              ComputeFiltered(state.items, state.activeFilters,
                              state.searchQuery, state.sortConfig)
        /\ state.pagination.totalItems = Len(state.filteredItems)

\* C25: a broadcast of the reset signal makes exactly one resetFilters()
\* call, whether it comes before any subscribe or after two observers have
\* subscribed: the criteria are the defaults and the page is 1 afterwards.
C25_ResetSignalResets ==
    lastOp.name = "resetSignal" =>
        /\ lastOp.resets = 1
        /\ state.activeFilters = NoFilters
        /\ state.searchQuery = <<>>
        /\ state.sortConfig = DefaultSort
        /\ state.pagination.currentPage = 1

\* C26: the search widget has at most one debounce timer pending, the one
\* started for the text now in the input (every new text cancels the timer
\* of the text before it), every call of setSearch it makes carries the
\* text that is in the input, and no timer is pending once it is unmounted.
C26_Debounce ==
    /\ [](ui.search.timers \subseteq {ui.search.searchQuery})
    /\ [](~ui.search.mounted => ui.search.timers = {})
    /\ [][calls' # calls /\ lastOp'.name = "setSearch"
              => lastOp'.query = ui'.search.searchQuery]_vars

\* Two keystrokes in a row, then quiet: one setSearch, with the second text.
C26_Witness ==
    /\ lastOp.name = "setSearch"
    /\ lastOp.query = <<"b", "l">>
    /\ pre.searchQuery = NoText
    /\ state.searchQuery = <<"b", "l">>
    /\ ui.search.coalesced = 2
    /\ ui.search.timers = {}

\* The state the first subscribe restores from the session's entries.
Restored == RestoreState(InitialState, ui.session)

C29_QuietBatch ==
    /\ (batchDepth > 0 /\ ~lastOp.mutated) => NoNotifyRound
    /\ (lastOp.name = "batchEnd" /\ ~lastOp.mutated) =>
           /\ NoNotifyRound
           /\ \A o \in Observers : callRecv[o] = 0

\* C30: outside batch, when a call of setFilter, removeFilter, setSearch,
\* setSort, resetFilters, setPage or setPagination, or of a setItems that
\* changes the collection, has returned, each registered observer has been
\* notified exactly once, with the state as the call left it, filtered list
\* and total included; and no round of notification holds a snapshot other
\* than the state.
C30_OneNotificationPerCall ==
    /\ (~isBatching /\ lastOp.name \in WritingCalls \cup {"setItems"}) =>
           \A i \in 1..Len(stack) : stack[i].snap = state
    /\ (TopLevel /\ ~isBatching /\
          (\/ lastOp.name \in WritingCalls
           \/ (lastOp.name = "setItems" /\ ~lastOp.same /\ ~lastOp.raised))) =>
           \A o \in Observers :
               IF o \in Range(listeners)
               THEN callRecv[o] = 1 /\ lastRecv[o] = state
               ELSE callRecv[o] = 0
    /\ (TopLevel /\ ~isBatching /\
          (\/ lastOp.name \in WritingCalls \ {"setPage", "setPagination"}
           \/ (lastOp.name = "setItems" /\ ~lastOp.same /\ ~lastOp.raised))) =>
           state.filteredItems =
               ComputeFiltered(state.items, state.activeFilters,
                               state.searchQuery, state.sortConfig)

\* A setFilter outside batch has returned: both observers were called once
\* with the filtered list it computed.
C30_Witness ==
    /\ TopLevel
    /\ ~isBatching
    /\ lastOp.name = "setFilter"
    /\ Range(listeners) = Observers
    /\ state.activeFilters # NoFilters
    /\ state.filteredItems # <<>>
    /\ Len(state.filteredItems) < Len(state.items)
    /\ \A o \in Observers : callRecv[o] = 1 /\ lastRecv[o] = state


\* The place of a card in the collection of the store.
PlaceInItems(id) == CHOOSE k \in 1..Len(state.items) : state.items[k] = id

\* C31: while sortConfig.field is none, filteredItems is in non-decreasing
\* order of _index, an item without _index counting as 0, and items of
\* equal _index stand in the order they have in the item collection.
C31_IndexOrder ==
    state.sortConfig.field = NullField =>
        \A i, j \in 1..Len(state.filteredItems) :
            i < j =>
                LET a == state.filteredItems[i]
                    b == state.filteredItems[j]
                IN  /\ IndexOrZero(Item(a)) <= IndexOrZero(Item(b))
                    /\ IndexOrZero(Item(a)) = IndexOrZero(Item(b)) =>
                           PlaceInItems(a) < PlaceInItems(b)

\* A collection given out of order has been sorted back, the record
\* without _index staying before the card of _index 0 that followed it.
C31_Witness ==
    /\ lastOp.name = "setItems"
    /\ state.sortConfig.field = NullField
    /\ state.items = <<3, 5, 2, 1>>
    /\ state.filteredItems = <<5, 1, 2, 3>>
    /\ stack = <<>>

\* C32: the search widget's text follows the store: once resetFilters() has
\* been notified to the mounted widget and the user has typed nothing since,
\* the local text is the store's searchQuery; and the notification of a
\* call that does not touch searchQuery never replaces a text the user has
\* typed and whose debounce timer is still pending.
C32_SearchFollowsStore ==
    /\ [](/\ TopLevel
          /\ ui.search.mounted
          /\ lastOp.name = "resetFilters"
          /\ ui.search.strokes = 0
          => ui.search.searchQuery = state.searchQuery)
    /\ [][/\ lastOp.name \in {"setItems", "setPage"}
          /\ stack' # stack
          /\ ui.search.strokes > 0
          /\ ui.search.timers # {}
          => ui'.search.searchQuery = ui.search.searchQuery]_vars

\* C33: the store's range match reads the value of an item as the range
\* slider does when it computes the data bounds (the comma kept and turned
\* into a dot): the two numbers are the same for every item of the store,
\* and an item whose value, as the slider reads it, lies in the range of the
\* active slider filter is in filteredItems when there is no search query.
C33_SameNumberAsSlider ==
    /\ \A id \in Range(state.items) :
           ParseFloat(CleanNumeric(JSString(GetField(Item(id), "price"))))
               = SliderNumber(GetField(Item(id), "price"))
    /\ (/\ Recomputed
        /\ state.searchQuery = <<>>
        /\ state.activeFilters[SliderFilterKey].t = "pair")
       => \A id \in Range(state.items) :
              (/\ ~SliderNumber(GetField(Item(id), "price")).nan
               /\ SliderNumber(GetField(Item(id), "price")).v
                      >= state.activeFilters[SliderFilterKey].lo
               /\ SliderNumber(GetField(Item(id), "price")).v
                      <= state.activeFilters[SliderFilterKey].hi)
              => id \in Range(state.filteredItems)

\* C34: when resetFilters() is the last call fn makes inside batch(fn),
\* the four sessionStorage entries are absent once batch has returned, as
\* they are after a resetFilters() outside batch.
C34_BatchedResetErases ==
    [][/\ lastOp.name = "resetFilters"
       /\ isBatching
       /\ lastOp'.name = "batchEnd"
       => \A entry \in DOMAIN storage' : ~storage'[entry].has]_vars

\* C35: when fn throws after it has called a mutator, batch hands the
\* exception on to its caller with the batching flag cleared and the
\* pending notification delivered once to each observer, never twice; and
\* a mutator called outside batch, also after such a batch, notifies at
\* once instead of leaving a pending notification.
C35_ThrowingBatch ==
    /\ [](batchDepth = 0 => ~isBatching)
    /\ [](lastOp.name = "batchEnd" /\ lastOp.raised /\ lastOp.mutated
          => /\ ~pendingNotify
             /\ \A o \in Range(listeners) :
                    callRecv[o] = IF TopLevel THEN 1 ELSE callRecv[o]
             /\ \A o \in Observers : callRecv[o] <= 1)
    /\ [][calls' # calls /\ batchDepth = 0
          => /\ ~pendingNotify'
             /\ Len(stack') = 1
             /\ stack'[1].kind = "notify"
             /\ stack'[1].todo = listeners]_vars

\* fn has called a mutator and thrown; both observers have been notified.
C35_Witness ==
    /\ lastOp.name = "batchEnd"
    /\ lastOp.raised
    /\ lastOp.mutated
    /\ TopLevel
    /\ Range(listeners) = Observers
    /\ \A o \in Observers : callRecv[o] = 1
    /\ ~isBatching

\* C36: while pagination.persistPage is false, a call of setFilter,
\* removeFilter, setSearch, setSort, setPage or setPagination leaves the
\* current-page entry of sessionStorage as it was.
C36_PageEntryUntouched ==
    [][/\ calls' # calls
       /\ lastOp'.name \in {"setFilter", "removeFilter", "setSearch",
                            "setSort", "setPage", "setPagination"}
       /\ ~state.pagination.persistPage
       /\ ~state'.pagination.persistPage
       => storage'.page = storage.page]_vars

\* The state of a fresh store after its first subscribe has restored from
\* the sessionStorage of this one.
FreshStore == RestoreState(InitialState, storage)

\* C37 as stated: between the calls of a store whose persistPage is true,
\* a fresh store restoring from the same sessionStorage has the
\* activeFilters, searchQuery, sortConfig and currentPage of this store.
C37_RoundTrip ==
    (TopLevel /\ state.pagination.persistPage)
    => /\ FreshStore.activeFilters = state.activeFilters
       /\ FreshStore.searchQuery = state.searchQuery
       /\ FreshStore.sortConfig = state.sortConfig
       /\ FreshStore.pagination.currentPage = state.pagination.currentPage

\* C37, amended: the criteria are restored as they are, and so is
\* currentPage when it is 1 or more; a page of 0 is saved but not restored,
\* the fresh store then keeps page 1.
C37_RoundTripOfValidPage ==
    (TopLevel /\ state.pagination.persistPage)
    => /\ FreshStore.activeFilters = state.activeFilters
       /\ FreshStore.searchQuery = state.searchQuery
       /\ FreshStore.sortConfig = state.sortConfig
       /\ FreshStore.pagination.currentPage =
              IF state.pagination.currentPage > 0
              THEN state.pagination.currentPage ELSE 1

\* The store holds a sort, or the page 2, that the storage hands back.
C37_Witness ==
    /\ TopLevel
    /\ state.pagination.persistPage
    /\ lastOp.name = "setSort"
    /\ state.sortConfig # DefaultSort
    /\ storage.page = Present(<<"1">>)
    /\ FreshStore.sortConfig = state.sortConfig

\* The multi-select shows what the store holds for its key and neither of
\* the two has anything left to do.
MultiConverged ==
    /\ MultiSettled
    /\ WidgetObserver \in Range(listeners)
    /\ ui.multi.selectedOptions = state.activeFilters[MultiFilterKey].opts

\* C38: after the changes the page's other parts make to the store's value
\* for the key of the multi-select, each made while the widget is at rest,
\* the widget and the store end up at rest with selectedOptions equal to
\* the store's value, and stay so: the exchange of setFilter calls and
\* notifications between them stops.
C38_MultiConverges == <>[](ui.multi.mounted => MultiConverged)

\* The widget has taken over a value set elsewhere.
C38_Witness ==
    /\ MultiConverged
    /\ lastOp.name = "subscribe"
    /\ ~ui.multi.isFirstRun
    /\ calls > 0
    /\ ui.multi.selectedOptions = <<<<"r", "e", "d">>>>

\* C39: a setPage the pagination widget calls carries a page between 1
\* and the number of pages the store's state has at the time of the call.
C39_PageInRange ==
    [][/\ lastOp'.name = "setPage"
       /\ TopLevel
       /\ stack' # <<>>
       => /\ lastOp'.page >= 1
          /\ lastOp'.page <= PagesOf(state.pagination.totalItems,
                                     state.pagination.itemsPerPage)]_vars

SelInBounds ==
    /\ ui.slider.data.lo <= ui.sel.minVal
    /\ ui.sel.minVal <= ui.sel.maxVal
    /\ ui.sel.maxVal <= ui.slider.data.hi

\* C40: a slider move, a track click or a text-field commit made while the
\* pending selection satisfies dataMin <= minVal <= maxVal <= dataMax
\* leaves a pending selection that satisfies it, and a range given to the
\* store by handleApply lies within the data bounds.
C40_SelectionInBounds ==
    /\ [][SelInBounds /\ ui'.sel # ui.sel /\ stack' = stack /\ lastOp' = lastOp
          => SelInBounds']_vars
    /\ [][/\ lastOp'.name = "setFilter"
          /\ lastOp' # lastOp
          /\ ~ui.slider.dirty
          /\ lastOp'.key = SliderFilterKey
          => /\ ui.slider.data.lo <= lastOp'.value.lo
             /\ lastOp'.value.hi <= ui.slider.data.hi]_vars

====
